---------------------------- MODULE Spec2Model ----------------------------
(***************************************************************************)
(* A model of ansibotmini (src/ansibotmini.py): the command parser, the    *)
(* rule pipeline (bot_funcs), the action applier inside triage, and the    *)
(* fetch / cache / daemon loop around it.                                  *)
(*                                                                         *)
(* Text (an object body, a comment body) is a sequence of lines; a line is *)
(* a record [t, s]: t is the shape the program's regular expressions see   *)
(* and s its payload, a sequence of atoms (strings):                       *)
(*   "cmd"       s = <<keyword>>      a line that is exactly the keyword   *)
(*   "resolved"  s = atoms of <ref>   "resolved_by_pr <ref>"               *)
(*   "component" s = atoms after      "!component <s>"                     *)
(*   "heading"   s = <<section>>      "### <section>"                      *)
(*   "text"      s = atoms            any other line                       *)
(*   "version"   s = <<"X.Y">>        "ansible [core X.Y.z]"               *)
(*   "marker"    s = <<name>>         "<!--- boilerplate: name --->"       *)
(*   "bullet"    s = atoms            a list item: star, quoted <s>        *)
(*   "rhash"     s = <<hash>>         "<!-- r_hash: hash -->"              *)
(* Timestamps are integers counted in ticks, TicksPerDay ticks to a day.   *)
(***************************************************************************)
EXTENDS Integers, Sequences, FiniteSets, TLC

VARIABLES
    dry_run,        \* the --dry-run flag
    section_order,  \* the order this process iterates ISSUE_TEMPLATE_SECTIONS in
    now,            \* the wall clock, in ticks
    remote,         \* the tracker: number -> the object as the remote holds it
    objects,        \* triage's argument: the sequence of fetched snapshots
    tpc,            \* where triage stands
    cur,            \* index in objects of the object being triaged
    commands_found, \* ctx.commands_found of the current object
    is_bot_broken,  \* the toggle computed at line 1265
    is_bot_skip,    \* the toggle computed at line 1270
    actions,        \* the Actions accumulator of the current object
    pre_diff,       \* the accumulator as the pipeline left it (before line 1297)
    invoked,        \* names of the bot_funcs called for the current object
    ncomment,       \* number of actions.comments already posted
    log,            \* every remote mutation issued so far, in order
    err,            \* the exception that left triage / the daemon ("none")
    triaged,        \* numbers of the objects whose loop body ran to its end
    cache,          \* the shelve cache: number -> [present, updated_at, last_triaged]
    dpc,            \* where the daemon loop stands
    number_map,     \* fetch_objects: the numbers selected by discovery
    listed,         \* discovery futures that have completed
    futures,        \* fetch stage: number -> "none"|"pending"|"ok"|"failed"|"taken"
    data,           \* fetch_objects: the results in completion order
    cycle           \* number of the daemon cycle under way

vars == <<dry_run, section_order, now, remote, objects, tpc, cur, commands_found,
          is_bot_broken, is_bot_skip, actions, pre_diff, invoked, ncomment,
          log, err, triaged, cache, dpc, number_map, listed, futures, data,
          cycle>>

triage_vars == <<objects, tpc, cur, commands_found, is_bot_broken,
                 is_bot_skip, actions, pre_diff, invoked, ncomment, triaged>>

daemon_vars == <<cache, dpc, number_map, listed, futures, data, cycle>>

-----------------------------------------------------------------------------
\* Bounds of the model.

\* ticks of the clock in one day
TicksPerDay == 2
\* comments in one object's history at the start
MaxComments == 2
\* objects the remote repository holds in the daemon specification
NumObjects == 2
\* daemon cycles explored
MaxCycles == 2

\* Program constants.
STALE_CI_DAYS == 7
STALE_ISSUE_DAYS == 7
NEEDS_INFO_WARN_DAYS == 14
NEEDS_INFO_CLOSE_DAYS == 28
WAITING_ON_CONTRIBUTOR_CLOSE_DAYS == 365
BOT_ACCOUNT == "ansibot"

VALID_COMMANDS ==
    {"bot_skip", "!bot_skip", "bot_broken", "!bot_broken", "needs_info",
     "waiting_on_contributor", "!needs_collection_redirect"}

ISSUE_TEMPLATE_SECTIONS ==
    {"Summary", "Issue Type", "Component Name", "Ansible Version",
     "Configuration", "OS / Environment"}

\* The keys ctx.commands_found can hold.
Keywords == VALID_COMMANDS \cup {"resolved_by_pr", "component"}

-----------------------------------------------------------------------------
\* Sequence helpers.

Range(s) == {s[i] : i \in 1..Len(s)}

Last(s) == s[Len(s)]

RECURSIVE Concat(_)
Concat(ss) == IF ss = <<>> THEN <<>> ELSE Head(ss) \o Concat(Tail(ss))

RECURSIVE MaxOf(_)
MaxOf(S) ==
    IF S = {} THEN 0
    ELSE LET x == CHOOSE y \in S : TRUE
             m == MaxOf(S \ {x})
         IN IF S = {x} \/ x > m THEN x ELSE m

-----------------------------------------------------------------------------
\* Records of the object model.

Line(t, s) == [t |-> t, s |-> s]

Cmd(k) == Line("cmd", <<k>>)

Command(updated_at, arg) == [updated_at |-> updated_at, arg |-> arg]

NoActions ==
    [to_label |-> <<>>, to_unlabel |-> <<>>, comments |-> <<>>,
     cancel_ci |-> FALSE, close |-> FALSE]

Event(name, created_at, updated_at, label, author, body) ==
    [name |-> name, created_at |-> created_at, updated_at |-> updated_at,
     label |-> label, author |-> author, body |-> body]

LabeledEvent(at, label, actor) == Event("LabeledEvent", at, at, label, actor, <<>>)

UnlabeledEvent(at, label, actor) == Event("UnlabeledEvent", at, at, label, actor, <<>>)

IssueComment(created, updated, author, body) ==
    Event("IssueComment", created, updated, "", author, body)

CrossReferencedEvent(at) == Event("CrossReferencedEvent", at, at, "", "", <<>>)

NoCI == [present |-> FALSE, conclusion |-> "", status |-> "", updated_at |-> 0]

CI(conclusion, status, updated_at) ==
    [present |-> TRUE, conclusion |-> conclusion, status |-> status,
     updated_at |-> updated_at]


-----------------------------------------------------------------------------
\* The command parser (triage, lines 1244-1263).

\* COMMANDS_RE.findall(body): the lines that are exactly a valid command.
COMMANDS_RE(body) ==
    SelectSeq(body, LAMBDA l : l.t = "cmd" /\ l.s[1] \in VALID_COMMANDS)

\* RESOLVED_BY_PR_RE: "resolved_by_pr" and one or more of '#', digits.
Digits == {"0", "1", "2", "3", "4", "5", "6", "7", "8", "9"}

RESOLVED_BY_PR_RE(body) ==
    SelectSeq(body, LAMBDA l : /\ l.t = "resolved"
                               /\ l.s # <<>>
                               /\ Range(l.s) \subseteq Digits \cup {"#"})

\* COMPONENT_COMMAND_RE.findall(body): "!component " then one of = + - and
\* at least one more non-blank character.
Blank == {" ", "\t"}

COMPONENT_COMMAND_RE(body) ==
    SelectSeq(body, LAMBDA l : /\ l.t = "component"
                               /\ Len(l.s) >= 2
                               /\ l.s[1] \in {"=", "+", "-"}
                               /\ Range(l.s) \cap Blank = {})

\* str.removeprefix("#")
removeprefix_hash(s) == IF s # <<>> /\ s[1] = "#" THEN Tail(s) ELSE s

\* The text blocks of an object with their timestamps: the body with the
\* object's updated_at, then every IssueComment with its own updated_at.
bodies(obj) ==
    <<[body |-> obj.body, updated_at |-> obj.updated_at]>> \o
    [i \in 1..Len(SelectSeq(obj.events, LAMBDA e : e.name = "IssueComment")) |->
        LET e == SelectSeq(obj.events, LAMBDA x : x.name = "IssueComment")[i]
        IN [body |-> e.body, updated_at |-> e.updated_at]]

\* The commands one text block adds under keyword k.
BlockCommands(b, k) ==
    IF k \in VALID_COMMANDS THEN
        LET found == SelectSeq(COMMANDS_RE(b.body), LAMBDA l : l.s[1] = k)
        IN [i \in 1..Len(found) |-> Command(b.updated_at, <<>>)]
    ELSE IF k = "resolved_by_pr" THEN
        LET found == RESOLVED_BY_PR_RE(b.body)
        IN IF found = <<>> THEN <<>>
           ELSE <<Command(b.updated_at, removeprefix_hash(found[1].s))>>
    ELSE
        LET found == COMPONENT_COMMAND_RE(b.body)
        IN [i \in 1..Len(found) |-> Command(b.updated_at, found[i].s)]

\* ctx.commands_found after the loop of lines 1253-1263; a keyword is "in"
\* the index exactly when its list is not empty.
parse_commands(obj) ==
    [k \in Keywords |->
        Concat([i \in 1..Len(bodies(obj)) |-> BlockCommands(bodies(obj)[i], k)])]

Has(cf, k) == cf[k] # <<>>

\* Lines 1265-1274: the toggle pair (keyword, "!" keyword).
toggle_effective(cf, keyword, negation) ==
    /\ Has(cf, keyword)
    /\ \/ ~Has(cf, negation)
       \/ Last(cf[keyword]).updated_at > Last(cf[negation]).updated_at

-----------------------------------------------------------------------------
\* Helpers of the rules.

\* days_since: timedelta.days of (now - when), a floor division.
days_since(when) == (now - when) \div TicksPerDay

\* The created_at values last_labeled takes the max() of; max() of none
\* raises ValueError.
labeled_times(obj, name) ==
    {e.created_at : e \in {x \in Range(obj.events) :
        x.name = "LabeledEvent" /\ x.label = name}}

last_labeled(obj, name) == MaxOf(labeled_times(obj, name))

\* The created_at values last_commented_by takes the max() of; none gives
\* None.
commented_times(obj, name) ==
    {e.created_at : e \in {x \in Range(obj.events) :
        x.name = "IssueComment" /\ x.author = name}}

last_commented_by(obj, name) == MaxOf(commented_times(obj, name))

\* The bot's comments that carry the boilerplate marker `name`.
boilerplates(obj, name) ==
    SelectSeq(obj.events, LAMBDA e :
        /\ e.name = "IssueComment"
        /\ e.author = BOT_ACCOUNT
        /\ \E i \in 1..Len(e.body) :
              e.body[i].t = "marker" /\ e.body[i].s = <<name>>)

\* last_boilerplate: max(..., key=created_at), the first of the greatest;
\* only called here when boilerplates(obj, name) is not empty (else None).
last_boilerplate(obj, name) ==
    LET c == boilerplates(obj, name)
        i == CHOOSE i \in 1..Len(c) :
                \A j \in 1..Len(c) :
                    \/ c[j].created_at < c[i].created_at
                    \/ c[j].created_at = c[i].created_at /\ j >= i
    IN c[i]

\* A rendered template: the marker the template file carries, then the
\* lines its substitutions produce.
TemplateMarker(name) ==
    IF name = "ci_test_results" THEN "ci_test_result" ELSE name

Template(name, lines) == <<Line("marker", <<TemplateMarker(name)>>)>> \o lines

\* What a rule hands back: the object (match_components sets components),
\* the accumulator, and the exception it raised ("none").
Ok(obj, a) == [obj |-> obj, a |-> a, err |-> "none"]

Raise(obj, a, e) == [obj |-> obj, a |-> a, err |-> e]

to_label_append(a, l) == [a EXCEPT !.to_label = Append(@, l)]

to_unlabel_append(a, l) == [a EXCEPT !.to_unlabel = Append(@, l)]

comments_append(a, c) == [a EXCEPT !.comments = Append(@, c)]

\* list.remove(x): drops the first occurrence.
list_remove(s, x) ==
    LET i == CHOOSE i \in 1..Len(s) : s[i] = x /\ \A j \in 1..(i - 1) : s[j] # x
    IN SubSeq(s, 1, i - 1) \o SubSeq(s, i + 1, Len(s))

isPR(obj) == obj.kind = "PR"

\* The lines of the first section headed `name`, up to the next heading;
\* matched is FALSE when the body has no such heading.
Section(body, name) ==
    LET heads == {i \in 1..Len(body) : body[i].t = "heading" /\ body[i].s = <<name>>}
    IN IF heads = {} THEN [matched |-> FALSE, lines |-> <<>>]
       ELSE LET h == CHOOSE i \in heads : \A j \in heads : i <= j
                nxt == {i \in (h + 1)..Len(body) : body[i].t = "heading"}
                e == IF nxt = {} THEN Len(body)
                     ELSE (CHOOSE i \in nxt : \A j \in nxt : i <= j) - 1
            IN [matched |-> h < Len(body), lines |-> SubSeq(body, h + 1, e)]

-----------------------------------------------------------------------------
\* The remote collaborators the rules read.

\* get_pr_state: the state of the pull request a reference names.
PullRequestState(ref) ==
    CASE ref = <<"7">> -> "merged"
      [] ref = <<"8">> -> "open"
      [] OTHER -> "missing"

\* int(command.arg) accepts a non-empty string of digits.
IsInt(arg) == arg # <<>> /\ Range(arg) \subseteq Digits

\* all(get_pr_state(int(c.arg)).lower() == "merged" for c in commands):
\* "true", "false", or the exception of the first call that raises. A
\* missing pull request makes get_pr_state subscript None (TypeError).
RECURSIVE all_merged(_)
all_merged(commands) ==
    IF commands = <<>> THEN "true"
    ELSE IF ~IsInt(Head(commands).arg) THEN "ValueError"
    ELSE IF PullRequestState(Head(commands).arg) = "missing" THEN "TypeError"
    ELSE IF PullRequestState(Head(commands).arg) # "merged" THEN "false"
    ELSE all_merged(Tail(commands))

-----------------------------------------------------------------------------
\* Component extraction (process_component, match_existing_components).
\* A component is a sequence of atoms: path segments and names, and the
\* separators "/", ".", ",", " ", "#", the suffixes ".py", ".ps1", digits.

\* str.split(sep)
RECURSIVE Split(_, _)
Split(s, sep) ==
    IF \A i \in 1..Len(s) : s[i] # sep THEN <<s>>
    ELSE LET i == CHOOSE i \in 1..Len(s) :
                     s[i] = sep /\ \A j \in 1..(i - 1) : s[j] # sep
         IN <<SubSeq(s, 1, i - 1)>> \o Split(SubSeq(s, i + 1, Len(s)), sep)

\* str.strip()
RECURSIVE Strip(_)
Strip(s) ==
    IF s = <<>> THEN s
    ELSE IF Head(s) \in Blank THEN Strip(Tail(s))
    ELSE IF Last(s) \in Blank THEN Strip(SubSeq(s, 1, Len(s) - 1))
    ELSE s

\* str.lower() on the atoms of the model that are not lower case already.
Lower(a) ==
    CASE a = "Copy" -> "copy"
      [] a = ".PY" -> ".py"
      [] OTHER -> a

\* Atoms that re.sub(r"[^a-zA-Z/._-]", "", c) deletes.
NonPathAtoms ==
    Digits \cup Blank \cup {"#", ",", "*", "backtick", "(", ")", "[", "]", "!", "=", "+", ":", "@"}

\* Atoms the chain of str.replace calls of lines 666-669 deletes.
ReplacedAtoms == {"ansible.builtin.", "ansible.legacy.", ".py", ".ps1"}

Suffixes == {".py", ".ps1"}

ModulesDir == <<"lib", "/", "ansible", "/", "modules", "/">>

\* re.sub of a pattern (dir)/(.*)(/.+\.(?:py|ps1)) by keep and the last
\* group: the directories between dir and the file are dropped.
flatten_dirs(c, dir, keep) ==
    LET n == Len(dir)
        starts == {p \in 1..Len(c) :
                      p + n - 1 <= Len(c) /\ SubSeq(c, p, p + n - 1) = dir}
    IN IF starts = {} THEN c
       ELSE LET p == CHOOSE x \in starts : \A y \in starts : x <= y
                \* the last "/" that still has a name and a suffix behind it
                cuts == {q \in (p + n)..Len(c) :
                            /\ c[q] = "/"
                            /\ \E e \in (q + 2)..Len(c) : c[e] \in Suffixes}
            IN IF cuts = {} THEN c
               ELSE LET q == CHOOSE x \in cuts : \A y \in cuts : x >= y
                    IN SubSeq(c, 1, p - 1) \o keep \o SubSeq(c, q, Len(c))

\* re.sub(r"(lib/ansible/modules)/(.*)(/.+\.(?:py|ps1))", r"\1\3", c)
flatten_modules(c) ==
    flatten_dirs(c, ModulesDir, <<"lib", "/", "ansible", "/", "modules">>)

\* len(c) > 1: more than one atom, or one atom of several characters.
OneCharAtoms == {"a", "b", "/", ".", "_", "-"}

long(c) == Len(c) > 1 \/ (Len(c) = 1 /\ c[1] \notin OneCharAtoms)

\* Lines 652-680 for one blank-separated word c: what it adds to rv.
process_word(word) ==
    LET c0 == Strip(word)
        c1 == IF "/" \in Range(c0)
              THEN IF "#" \in Range(c0) THEN Head(Split(c0, "#")) ELSE c0
              ELSE SelectSeq([i \in 1..Len(c0) |-> Lower(c0[i])],
                             LAMBDA a : a \notin ReplacedAtoms)
        c == SelectSeq(c1, LAMBDA a : a \notin NonPathAtoms)
    IN IF c = <<>> THEN <<>>
       ELSE (IF flatten_modules(c) # c THEN <<flatten_modules(c)>> ELSE <<>>)
            \o (IF long(c) THEN <<c>> ELSE <<>>)

\* Lines 648-651 for one line: split on commas, then on blanks; a part of
\* more than five words is skipped.
process_line(line) ==
    LET parts == Split(line, ",")
    IN Concat([i \in 1..Len(parts) |->
          LET space_split == Split(parts[i], " ")
          IN IF Len(space_split) > 5 THEN <<>>
             ELSE Concat([j \in 1..Len(space_split) |->
                      process_word(space_split[j])])])

\* process_component(data): data are the lines of the section; lines that
\* are empty or carry an HTML comment mark are skipped.
process_component(lines) ==
    LET kept == SelectSeq(lines, LAMBDA l :
                    /\ l.t \in {"text", "cmd"}
                    /\ l.s # <<>>
                    /\ Range(l.s) \cap {"<!--", "-->"} = {})
    IN Concat([i \in 1..Len(kept) |-> process_line(kept[i].s)])

\* The files of the repository that match_existing_components asks for.
RepoFiles ==
    {<<"lib", "/", "ansible", "/", "modules", "/", "copy", ".py">>,
     <<"lib", "/", "ansible", "/", "plugins", "/", "lookup", "/", "copy", ".py">>,
     <<"lib", "/", "ansible", "/", "modules", "/", "ec", ".py">>,
     <<"bin", "/", "ansible">>}

\* paths of line 707-708: modules, bin, cli, then the plugin directories.
\* ANSIBLE_PLUGINS is a frozenset, so the order of the plugin directories
\* among themselves is not fixed; no name of RepoFiles lies in two plugin
\* directories, so the answer does not depend on that order.
ANSIBLE_PLUGINS ==
    <<"action", "become", "cache", "callback", "cliconf", "connection",
      "doc_fragments", "filter", "httpapi", "inventory", "lookup", "netconf",
      "shell", "strategy", "terminal", "test", "vars">>

component_paths ==
    <<ModulesDir, <<"bin", "/">>, <<"lib", "/", "ansible", "/", "cli", "/">>>>
    \o [i \in 1..Len(ANSIBLE_PLUGINS) |->
          <<"lib", "/", "ansible", "/", "plugins", "/", ANSIBLE_PLUGINS[i], "/">>]

\* match_existing_components(filenames): of the candidate paths, those the
\* repository holds, in the order asked.
match_existing_components(filenames) ==
    LET candidates(f) ==
            IF "/" \in Range(f) THEN <<f>>
            ELSE [j \in 1..Len(component_paths) |->
                     component_paths[j] \o f \o <<".py">>]
        asked == Concat([i \in 1..Len(filenames) |-> candidates(filenames[i])])
    IN SelectSeq(asked, LAMBDA p : p \in RepoFiles)

-----------------------------------------------------------------------------
\* The collections registry (ctx.collections_list, ctx.collections_file_map).

CollectionInfo(namespace, name, repository) ==
    [namespace |-> namespace, name |-> name, repository |-> repository]

\* ctx.collections_list: "namespace.name" -> manifest.collection_info
collections_list ==
    {[key |-> <<"community", ".", "general">>,
      info |-> CollectionInfo("community", "general",
                  <<"github.com", "/", "ansible-collections", "/", "community", ".", "general">>)],
     [key |-> <<"acme", ".", "net">>,
      info |-> CollectionInfo("acme", "net",
                  <<"example.org", "/", "vendor", "/", "plugins">>)]}

collections_list_get(key) ==
    LET hit == {c \in collections_list : c.key = key}
    IN IF hit = {} THEN <<>> ELSE <<(CHOOSE c \in hit : TRUE).info>>

\* ctx.collections_file_map: file path -> the collections that own it
collections_file_map_get(path) ==
    CASE path = <<"plugins", "/", "modules", "/", "nmcli", ".py">> ->
            <<<<"community", ".", "general">>>>
      [] path = <<"plugins", "/", "modules", "/", "route", ".py">> ->
            <<<<"acme", ".", "net">>, <<"acme", ".", "net">>>>
      [] path = <<"plugins", "/", "connection", "/", "lxc", ".py">> ->
            <<<<"community", ".", "general">>>>
      [] OTHER -> <<>>

\* (candidate, collection_info) for every owner of path
file_map_entries(candidate, path) ==
    LET owners == collections_file_map_get(path)
    IN Concat([i \in 1..Len(owners) |->
          LET info == collections_list_get(owners[i])
          IN [j \in 1..Len(info) |-> [candidate |-> candidate, info |-> info[j]]]])

\* str.replace(sub, "") on atoms
RECURSIVE remove_all(_, _)
remove_all(c, sub) ==
    IF Len(c) < Len(sub) THEN c
    ELSE IF SubSeq(c, 1, Len(sub)) = sub
         THEN remove_all(SubSeq(c, Len(sub) + 1, Len(c)), sub)
         ELSE <<Head(c)>> \o remove_all(Tail(c), sub)

\* Lines 843-847: the path a component is looked up under in the file map.
flatten_connection(component) ==
    remove_all(
        flatten_dirs(component,
            <<"lib", "/", "ansible", "/", "plugins", "/", "connection", "/">>,
            <<"plugins", "/", "connection">>),
        <<"lib", "/", "ansible", "/">>)

\* component.split("."): the number of parts
dot_parts(c) ==
    1 + Cardinality({i \in 1..Len(c) : c[i] \in {"."} \cup Suffixes})

\* ".".join(fqcn[:2]) of a component of three parts
first_two_parts(c) ==
    LET dots == {i \in 1..Len(c) : c[i] \in {"."} \cup Suffixes}
        second == CHOOSE i \in dots : Cardinality({j \in dots : j < i}) = 1
    IN SubSeq(c, 1, second - 1)

\* Lines 827-837
fqcn_entries(processed_components) ==
    Concat([i \in 1..Len(processed_components) |->
        LET component == processed_components[i]
        IN IF dot_parts(component) # 3 THEN <<>>
           ELSE LET info == collections_list_get(first_two_parts(component))
                IN [j \in 1..Len(info) |->
                       [candidate |-> component, info |-> info[j]]]])

\* Lines 839-856: the loop over the components with a "/"; it breaks as
\* soon as entries is not empty after a component's lookups.
RECURSIVE path_entries(_, _)
path_entries(components, entries) ==
    IF components = <<>> THEN [entries |-> entries, broke |-> FALSE]
    ELSE IF "/" \notin Range(Head(components))
         THEN path_entries(Tail(components), entries)
    ELSE LET e == entries \o file_map_entries(Head(components),
                                 flatten_connection(Head(components)))
         IN IF e # <<>> THEN [entries |-> e, broke |-> TRUE]
            ELSE path_entries(Tail(components), e)

\* Lines 858-874: the for-else, plugin candidates for the bare names.
plugin_types == ANSIBLE_PLUGINS \o <<"modules">>

candidate_entries(processed_components) ==
    LET bare == SelectSeq(processed_components, LAMBDA c : "/" \notin Range(c))
    IN Concat([i \in 1..Len(bare) |->
        Concat([j \in 1..Len(plugin_types) |->
            Concat([k \in 1..2 |->
                LET candidate == <<"plugins", "/", plugin_types[j], "/">> \o bare[i]
                                 \o <<IF k = 1 THEN ".py" ELSE ".ps1">>
                IN file_map_entries(candidate, candidate)])])])

\* Lines 877-884: with more than one entry, keep those whose namespace and
\* name both occur in the repository field.
tie_break(entries) ==
    IF Len(entries) > 1
    THEN SelectSeq(entries, LAMBDA x : /\ x.info.namespace \in Range(x.info.repository)
                                      /\ x.info.name \in Range(x.info.repository))
    ELSE entries

\* Lines 788-803: the component commands laid over the list.
RECURSIVE component_overlay(_, _)
component_overlay(existing_components, commands) ==
    IF commands = <<>> THEN [list |-> existing_components, err |-> "none"]
    ELSE LET op == Head(commands).arg[1]
             path == Tail(Head(commands).arg)
         IN CASE op = "=" -> component_overlay(<<path>>, Tail(commands))
              [] op = "+" ->
                    component_overlay(Append(existing_components, path), Tail(commands))
              [] op = "-" ->
                    component_overlay(
                        IF path \in Range(existing_components)
                        THEN list_remove(existing_components, path)
                        ELSE existing_components,
                        Tail(commands))
              [] OTHER -> [list |-> existing_components, err |-> "ValueError"]

\* re.sub(r"\([^)]+\)", "", line): a parenthesised group is deleted.
RECURSIVE remove_parens(_)
remove_parens(s) ==
    IF s = <<>> THEN s
    ELSE IF Head(s) = "(" /\ \E i \in 3..Len(s) : s[i] = ")"
         THEN LET i == CHOOSE i \in 3..Len(s) :
                          s[i] = ")" /\ \A j \in 3..(i - 1) : s[j] # ")"
              IN remove_parens(SubSeq(s, i + 1, Len(s)))
         ELSE <<Head(s)>> \o remove_parens(Tail(s))

\* Lines 808-812: the component list read back from the bot's comment.
last_components(comment) ==
    LET items == SelectSeq(comment.body, LAMBDA l : l.t = "bullet")
    IN [i \in 1..Len(items) |->
          Strip(SelectSeq(remove_parens(items[i].s),
                          LAMBDA a : a \notin {"*", "backtick", "[", "]"}))]

\* Lines 816-822: the rendered components_banner comment.
components_banner(existing_components) ==
    Template("components_banner",
        [i \in 1..Len(existing_components) |->
            Line("bullet", existing_components[i])])

\* Lines 885-896: the rendered collection_redirect comment.
collection_redirect(entries) ==
    Template("collection_redirect",
        [i \in 1..Len(entries) |->
            Line("text", entries[i].candidate \o <<"->">> \o entries[i].info.repository)])

\* match_components moving the files of a PR into its components instead
\* of copying them; C28 does not hold of it.
match_components_taking_files(obj, a, cf, fail) ==
    IF isPR(obj) THEN Ok([obj EXCEPT !.components = obj.files, !.files = <<>>], a)
    ELSE
    LET sec == Section(obj.body, "Component Name")
        processed_components ==
            IF sec.matched THEN process_component(sec.lines) ELSE <<>>
        queried == sec.matched /\ processed_components # <<>>
        matched == IF sec.matched
                   THEN match_existing_components(processed_components)
                   ELSE <<>>
        over == component_overlay(matched, cf["component"])
        existing_components == over.list
        command_components ==
            [i \in 1..Len(cf["component"]) |-> Tail(cf["component"][i].arg)]
        post_comment ==
            IF boilerplates(obj, "components_banner") # <<>>
            THEN existing_components #
                    last_components(last_boilerplate(obj, "components_banner"))
            ELSE TRUE
        a1 == IF post_comment
              THEN comments_append(a, components_banner(existing_components))
              ELSE a
        looped == path_entries(processed_components \o command_components,
                               fqcn_entries(processed_components))
        found == IF looped.broke THEN looped.entries
                 ELSE looped.entries \o candidate_entries(processed_components)
        a2 == IF ~Has(cf, "!needs_collection_redirect") /\ found # <<>>
              THEN [to_label_append(
                       comments_append(a1, collection_redirect(tie_break(found))),
                       "bot_closed") EXCEPT !.close = TRUE]
              ELSE a1
    IN IF queried /\ fail THEN Raise(obj, a, "URLError")
       ELSE IF over.err # "none" THEN Raise(obj, a, over.err)
       ELSE Ok([obj EXCEPT !.components = existing_components], a2)

match_components(obj, a, cf, fail) ==
    IF isPR(obj) THEN Ok([obj EXCEPT !.components = obj.files], a)
    ELSE
    LET sec == Section(obj.body, "Component Name")
        processed_components ==
            IF sec.matched THEN process_component(sec.lines) ELSE <<>>
        queried == sec.matched /\ processed_components # <<>>
        matched == IF sec.matched
                   THEN match_existing_components(processed_components)
                   ELSE <<>>
        over == component_overlay(matched, cf["component"])
        existing_components == over.list
        command_components ==
            [i \in 1..Len(cf["component"]) |-> Tail(cf["component"][i].arg)]
        post_comment ==
            IF boilerplates(obj, "components_banner") # <<>>
            THEN existing_components #
                    last_components(last_boilerplate(obj, "components_banner"))
            ELSE TRUE
        a1 == IF post_comment
              THEN comments_append(a, components_banner(existing_components))
              ELSE a
        looped == path_entries(processed_components \o command_components,
                               fqcn_entries(processed_components))
        found == IF looped.broke THEN looped.entries
                 ELSE looped.entries \o candidate_entries(processed_components)
        a2 == IF ~Has(cf, "!needs_collection_redirect") /\ found # <<>>
              THEN [to_label_append(
                       comments_append(a1, collection_redirect(tie_break(found))),
                       "bot_closed") EXCEPT !.close = TRUE]
              ELSE a1
    IN IF queried /\ fail THEN Raise(obj, a, "URLError")
       ELSE IF over.err # "none" THEN Raise(obj, a, over.err)
       ELSE Ok([obj EXCEPT !.components = existing_components], a2)

-----------------------------------------------------------------------------
\* The rule evaluators. Each takes the object, the Actions accumulator and
\* ctx.commands_found; `fail` says that the remote read the rule makes (if
\* it makes one) fails.

resolved_by_pr(obj, a, cf, fail) ==
    IF ~Has(cf, "resolved_by_pr") THEN Ok(obj, a)
    ELSE IF fail THEN Raise(obj, a, "URLError")
    ELSE LET r == all_merged(cf["resolved_by_pr"])
         IN CASE r = "true" -> Ok(obj, [a EXCEPT !.close = TRUE])
              [] r = "false" -> Ok(obj, a)
              [] OTHER -> Raise(obj, a, r)

\* needs_triage going by the labels on the object instead of its history;
\* C26 does not hold of it.
needs_triage_by_label(obj, a, cf, fail) ==
    IF obj.labels \cap {"needs_triage", "triage"} = {}
    THEN Ok(obj, to_label_append(a, "needs_triage"))
    ELSE Ok(obj, a)

needs_triage(obj, a, cf, fail) ==
    IF ~\E e \in Range(obj.events) :
            e.name = "LabeledEvent" /\ e.label \in {"needs_triage", "triage"}
    THEN Ok(obj, to_label_append(a, "needs_triage"))
    ELSE Ok(obj, a)

waiting_on_contributor(obj, a, cf, fail) ==
    LET a1 == IF Has(cf, "waiting_on_contributor")
              THEN to_label_append(a, "waiting_on_contributor")
              ELSE a
    IN IF "waiting_on_contributor" \notin obj.labels THEN Ok(obj, a1)
       ELSE IF labeled_times(obj, "waiting_on_contributor") = {}
            THEN Raise(obj, a1, "ValueError")
       ELSE IF days_since(last_labeled(obj, "waiting_on_contributor"))
                   > WAITING_ON_CONTRIBUTOR_CLOSE_DAYS
            THEN Ok(obj,
                    comments_append(
                        to_unlabel_append(
                            to_label_append([a1 EXCEPT !.close = TRUE], "bot_closed"),
                            "waiting_on_contributor"),
                        Template("waiting_on_contributor", <<>>)))
       ELSE Ok(obj, a1)

\* needs_info taking a comment made at the time of the labeling for one
\* made before it; C24 does not hold of it.
needs_info_until_answered_later(obj, a, cf, fail) ==
    LET a1 == IF Has(cf, "needs_info") THEN to_label_append(a, "needs_info") ELSE a
    IN IF ~("needs_info" \in obj.labels \/ "needs_info" \in Range(a1.to_label))
       THEN Ok(obj, a1)
       ELSE IF labeled_times(obj, "needs_info") = {} THEN Raise(obj, a1, "ValueError")
       ELSE
       LET labeled_datetime == last_labeled(obj, "needs_info")
           commented == commented_times(obj, obj.author)
           commented_datetime == last_commented_by(obj, obj.author)
       IN IF commented = {} \/ labeled_datetime >= commented_datetime
          THEN LET days_labeled == days_since(labeled_datetime)
                   warned == IF boilerplates(obj, "needs_info_warn") # <<>>
                             THEN <<last_boilerplate(obj, "needs_info_warn")>>
                             ELSE IF boilerplates(obj, "needs_info_base") # <<>>
                             THEN <<last_boilerplate(obj, "needs_info_base")>>
                             ELSE <<>>
               IN IF days_labeled > NEEDS_INFO_CLOSE_DAYS
                  THEN Ok(obj, comments_append([a1 EXCEPT !.close = TRUE],
                                   Template("needs_info_close", <<>>)))
                  ELSE IF /\ days_labeled > NEEDS_INFO_WARN_DAYS
                          /\ \/ warned = <<>>
                             \/ warned[1].created_at < labeled_datetime
                  THEN Ok(obj, comments_append(a1, Template("needs_info_warn", <<>>)))
                  ELSE Ok(obj, a1)
          ELSE Ok(obj, to_unlabel_append(
                   IF "needs_info" \in Range(a1.to_label)
                   THEN [a1 EXCEPT !.to_label = list_remove(@, "needs_info")]
                   ELSE a1,
                   "needs_info"))

\* needs_info warning without looking for the warning already posted; C19
\* does not hold of it.
needs_info_warning_again(obj, a, cf, fail) ==
    LET a1 == IF Has(cf, "needs_info") THEN to_label_append(a, "needs_info") ELSE a
    IN IF ~("needs_info" \in obj.labels \/ "needs_info" \in Range(a1.to_label))
       THEN Ok(obj, a1)
       ELSE IF labeled_times(obj, "needs_info") = {} THEN Raise(obj, a1, "ValueError")
       ELSE
       LET labeled_datetime == last_labeled(obj, "needs_info")
           commented == commented_times(obj, obj.author)
           commented_datetime == last_commented_by(obj, obj.author)
       IN IF commented = {} \/ labeled_datetime > commented_datetime
          THEN LET days_labeled == days_since(labeled_datetime)
                   warned == IF boilerplates(obj, "needs_info_warn") # <<>>
                             THEN <<last_boilerplate(obj, "needs_info_warn")>>
                             ELSE IF boilerplates(obj, "needs_info_base") # <<>>
                             THEN <<last_boilerplate(obj, "needs_info_base")>>
                             ELSE <<>>
               IN IF days_labeled > NEEDS_INFO_CLOSE_DAYS
                  THEN Ok(obj, comments_append([a1 EXCEPT !.close = TRUE],
                                   Template("needs_info_close", <<>>)))
                  ELSE IF days_labeled > NEEDS_INFO_WARN_DAYS
                  THEN Ok(obj, comments_append(a1, Template("needs_info_warn", <<>>)))
                  ELSE Ok(obj, a1)
          ELSE Ok(obj, to_unlabel_append(
                   IF "needs_info" \in Range(a1.to_label)
                   THEN [a1 EXCEPT !.to_label = list_remove(@, "needs_info")]
                   ELSE a1,
                   "needs_info"))

\* needs_info escalating from the threshold day on instead of after it; C18
\* does not hold of it.
needs_info_from_threshold(obj, a, cf, fail) ==
    LET a1 == IF Has(cf, "needs_info") THEN to_label_append(a, "needs_info") ELSE a
    IN IF ~("needs_info" \in obj.labels \/ "needs_info" \in Range(a1.to_label))
       THEN Ok(obj, a1)
       ELSE IF labeled_times(obj, "needs_info") = {} THEN Raise(obj, a1, "ValueError")
       ELSE
       LET labeled_datetime == last_labeled(obj, "needs_info")
           commented == commented_times(obj, obj.author)
           commented_datetime == last_commented_by(obj, obj.author)
       IN IF commented = {} \/ labeled_datetime > commented_datetime
          THEN LET days_labeled == days_since(labeled_datetime)
                   warned == IF boilerplates(obj, "needs_info_warn") # <<>>
                             THEN <<last_boilerplate(obj, "needs_info_warn")>>
                             ELSE IF boilerplates(obj, "needs_info_base") # <<>>
                             THEN <<last_boilerplate(obj, "needs_info_base")>>
                             ELSE <<>>
               IN IF days_labeled >= NEEDS_INFO_CLOSE_DAYS
                  THEN Ok(obj, comments_append([a1 EXCEPT !.close = TRUE],
                                   Template("needs_info_close", <<>>)))
                  ELSE IF /\ days_labeled >= NEEDS_INFO_WARN_DAYS
                          /\ \/ warned = <<>>
                             \/ warned[1].created_at < labeled_datetime
                  THEN Ok(obj, comments_append(a1, Template("needs_info_warn", <<>>)))
                  ELSE Ok(obj, a1)
          ELSE Ok(obj, to_unlabel_append(
                   IF "needs_info" \in Range(a1.to_label)
                   THEN [a1 EXCEPT !.to_label = list_remove(@, "needs_info")]
                   ELSE a1,
                   "needs_info"))

needs_info(obj, a, cf, fail) ==
    LET a1 == IF Has(cf, "needs_info") THEN to_label_append(a, "needs_info") ELSE a
    IN IF ~("needs_info" \in obj.labels \/ "needs_info" \in Range(a1.to_label))
       THEN Ok(obj, a1)
       ELSE IF labeled_times(obj, "needs_info") = {} THEN Raise(obj, a1, "ValueError")
       ELSE
       LET labeled_datetime == last_labeled(obj, "needs_info")
           commented == commented_times(obj, obj.author)
           commented_datetime == last_commented_by(obj, obj.author)
       IN IF commented = {} \/ labeled_datetime > commented_datetime
          THEN LET days_labeled == days_since(labeled_datetime)
                   warned == IF boilerplates(obj, "needs_info_warn") # <<>>
                             THEN <<last_boilerplate(obj, "needs_info_warn")>>
                             ELSE IF boilerplates(obj, "needs_info_base") # <<>>
                             THEN <<last_boilerplate(obj, "needs_info_base")>>
                             ELSE <<>>
               IN IF days_labeled > NEEDS_INFO_CLOSE_DAYS
                  THEN Ok(obj, comments_append([a1 EXCEPT !.close = TRUE],
                                   Template("needs_info_close", <<>>)))
                  ELSE IF /\ days_labeled > NEEDS_INFO_WARN_DAYS
                          /\ \/ warned = <<>>
                             \/ warned[1].created_at < labeled_datetime
                  THEN Ok(obj, comments_append(a1, Template("needs_info_warn", <<>>)))
                  ELSE Ok(obj, a1)
          ELSE Ok(obj, to_unlabel_append(
                   IF "needs_info" \in Range(a1.to_label)
                   THEN [a1 EXCEPT !.to_label = list_remove(@, "needs_info")]
                   ELSE a1,
                   "needs_info"))

\* The atoms of the model's bodies that contain w as a substring.
containing(w) == IF w = "bug" THEN {"bug", "bugfix"} ELSE {w}

\* Lines 966-976: the type words found in the "Issue Type" section.
match_object_type(obj, a, cf, fail) ==
    LET sec == Section(obj.body, "Issue Type")
        words == UNION {Range(l.s) : l \in Range(sec.lines)}
        a1 == IF containing("feature") \cap words # {}
              THEN to_label_append(a, "feature") ELSE a
        a2 == IF containing("bug") \cap words # {}
              THEN to_label_append(a1, "bug") ELSE a1
        a3 == IF (containing("documentation") \cup containing("docs")) \cap words # {}
              THEN to_label_append(a2, "docs") ELSE a2
        a4 == IF containing("test") \cap words # {}
              THEN to_label_append(a3, "test") ELSE a3
    IN IF sec.matched THEN Ok(obj, a4) ELSE Ok(obj, a)

\* f"affects_{X}.{Y}" for the versions the model's bodies name.
affects_label(version) ==
    CASE SubSeq(version, 1, 2) = <<"2", "14">> -> "affects_2.14"
      [] SubSeq(version, 1, 2) = <<"2", "15">> -> "affects_2.15"
      [] OTHER -> "affects_"

\* ctx.committers: the answer of get_committers()
committers == {"committer"}

match_version(obj, a, cf, fail) ==
    LET found == SelectSeq(obj.body, LAMBDA l : l.t = "version")
    IN IF found = <<>> THEN Ok(obj, a)
       ELSE LET label_name == affects_label(found[1].s)
            IN IF ~\E e \in Range(obj.events) :
                      /\ e.name = "UnlabeledEvent"
                      /\ e.author \in committers
                      /\ e.label = label_name
               THEN Ok(obj, to_label_append(a, label_name))
               ELSE Ok(obj, a)

\* The CI collaborator's answer for the object's build: azp.gone (404),
\* azp.failed_jobs, and per downloaded artifact azp.verifieds and the
\* failure text azp.results.
ci_comments(obj, a, cf, fail) ==
    IF ~isPR(obj) \/ ~obj.ci.present THEN Ok(obj, a)
    ELSE IF fail THEN Raise(obj, a, "URLError")
    ELSE LET azp == obj.azp
             r_hash == azp.results
             posted == \E e \in Range(obj.events) :
                          /\ e.name = "IssueComment"
                          /\ e.author = BOT_ACCOUNT
                          /\ Line("marker", <<"ci_test_result">>) \in Range(e.body)
                          /\ Line("rhash", r_hash) \in Range(e.body)
             a1 == IF azp.results # <<>> /\ ~posted
                   THEN comments_append(a,
                            Template("ci_test_results",
                                <<Line("text", azp.results), Line("rhash", r_hash)>>))
                   ELSE a
         IN IF azp.gone
            THEN IF obj.ci.conclusion = "success"
                 THEN Ok(obj, to_unlabel_append(a, "ci_verified"))
                 ELSE Ok(obj, a)
            ELSE IF azp.failed_jobs = 0
                 THEN Ok(obj, to_unlabel_append(a, "ci_verified"))
            ELSE IF /\ \A i \in 1..Len(azp.verifieds) : azp.verifieds[i]
                    /\ Len(azp.verifieds) = azp.failed_jobs
                 THEN Ok(obj, to_label_append(a1, "ci_verified"))
                 ELSE Ok(obj, to_unlabel_append(a1, "ci_verified"))

needs_revision(obj, a, cf, fail) ==
    IF ~isPR(obj) \/ ~obj.ci.present THEN Ok(obj, a)
    ELSE IF obj.changes_requested \/ obj.ci.conclusion # "success"
         THEN Ok(obj, to_label_append(a, "needs_revision"))
         ELSE Ok(obj, to_unlabel_append(a, "needs_revision"))

needs_ci(obj, a, cf, fail) ==
    IF ~isPR(obj) THEN Ok(obj, a)
    ELSE IF ~obj.ci.present \/ obj.ci.status # "completed"
         THEN IF "pre_azp" \notin obj.labels
              THEN Ok(obj, to_label_append(a, "needs_ci"))
              ELSE Ok(obj, a)
         ELSE Ok(obj, to_unlabel_append(to_unlabel_append(a, "needs_ci"), "pre_azp"))

stale_ci(obj, a, cf, fail) ==
    IF ~isPR(obj) \/ ~obj.ci.present THEN Ok(obj, a)
    ELSE IF days_since(obj.ci.updated_at) > STALE_CI_DAYS
         THEN Ok(obj, to_label_append(a, "stale_ci"))
         ELSE Ok(obj, to_unlabel_append(a, "stale_ci"))

\* c.startswith("docs/")
starts_with_docs(c) == Len(c) >= 2 /\ c[1] = "docs" /\ c[2] = "/"

docs_only(obj, a, cf, fail) ==
    IF ~isPR(obj) THEN Ok(obj, a)
    ELSE IF \A i \in 1..Len(obj.components) : starts_with_docs(obj.components[i])
         THEN Ok(obj, IF boilerplates(obj, "docs_team_info") = <<>>
                      THEN comments_append(to_label_append(a, "docs_only"),
                                           Template("docs_team_info", <<>>))
                      ELSE to_label_append(a, "docs_only"))
         ELSE Ok(obj, a)

\* obj.branch.startswith("stable-")
\* backport without the test for a pull request: an Issue has no branch;
\* C22 does not hold of it.
backport_of_any_object(obj, a, cf, fail) ==
    IF ~isPR(obj) THEN Raise(obj, a, "AttributeError")
    ELSE IF obj.branch # <<>> /\ obj.branch[1] = "stable-"
         THEN Ok(obj, to_label_append(a, "backport"))
         ELSE Ok(obj, to_unlabel_append(a, "backport"))

backport(obj, a, cf, fail) ==
    IF ~isPR(obj) THEN Ok(obj, a)
    ELSE IF obj.branch # <<>> /\ obj.branch[1] = "stable-"
         THEN Ok(obj, to_label_append(a, "backport"))
         ELSE Ok(obj, to_unlabel_append(a, "backport"))

\* c.startswith("lib/ansible/modules/")
starts_with_modules(c) == Len(c) >= 6 /\ SubSeq(c, 1, 6) = ModulesDir

is_module(obj, a, cf, fail) ==
    IF \E i \in 1..Len(obj.components) : starts_with_modules(obj.components[i])
    THEN Ok(obj, to_label_append(a, "module"))
    ELSE Ok(obj, to_unlabel_append(a, "module"))

needs_rebase(obj, a, cf, fail) ==
    IF ~isPR(obj) THEN Ok(obj, a)
    ELSE IF obj.mergeable = "conflicting"
         THEN Ok(obj, to_label_append(a, "needs_rebase"))
         ELSE Ok(obj, to_unlabel_append(a, "needs_rebase"))

\* obj.last_review is a sequence: <<>> for None, else <<timestamp>>.
stale_review(obj, a, cf, fail) ==
    IF ~isPR(obj) \/ obj.last_review = <<>> THEN Ok(obj, a)
    ELSE IF obj.last_review[1] < obj.last_commit
         THEN Ok(obj, to_label_append(a, "stale_review"))
         ELSE Ok(obj, to_unlabel_append(a, "stale_review"))

pr_from_upstream(obj, a, cf, fail) ==
    IF ~isPR(obj) \/ obj.from_repo # "ansible/ansible" THEN Ok(obj, a)
    ELSE LET a1 == comments_append([a EXCEPT !.close = TRUE],
                                   Template("pr_from_upstream", <<>>))
         IN Ok(obj, IF obj.ci.present THEN [a1 EXCEPT !.cancel_ci = TRUE] ELSE a1)

bad_pr(obj, a, cf, fail) ==
    IF ~isPR(obj) THEN Ok(obj, a)
    ELSE Ok(obj, IF obj.merge_commit THEN [a EXCEPT !.cancel_ci = TRUE] ELSE a)

linked_objs(obj, a, cf, fail) ==
    IF isPR(obj)
    THEN IF obj.has_issue
         THEN Ok(obj, to_label_append(a, "has_issue"))
         ELSE Ok(obj, to_unlabel_append(a, "has_issue"))
    ELSE IF \E e \in Range(obj.events) : e.name = "CrossReferencedEvent"
         THEN Ok(obj, to_label_append(a, "has_pr"))
         ELSE Ok(obj, to_unlabel_append(a, "has_pr"))

\* ISSUE_TEMPLATE_SECTIONS is a frozenset of strings: the order its iteration
\* yields is fixed within one process and differs between processes (string
\* hashing is seeded).  Two of the orders are kept.
declared_sections ==
    <<"Summary", "Issue Type", "Component Name", "Ansible Version",
      "Configuration", "OS / Environment">>

Reverse(s) == [i \in 1..Len(s) |-> s[Len(s) + 1 - i]]

SectionOrders == {declared_sections, Reverse(declared_sections)}

needs_template(obj, a, cf, fail) ==
    IF isPR(obj) THEN Ok(obj, a)
    ELSE
    LET missing == SelectSeq(section_order, LAMBDA s :
                       /\ s \in ISSUE_TEMPLATE_SECTIONS
                       /\ ~\E i \in 1..Len(obj.body) :
                             obj.body[i].t = "heading" /\ obj.body[i].s = <<s>>)
    IN IF missing # <<>>
       THEN LET a1 == to_label_append(to_label_append(a, "needs_template"), "needs_info")
            IN Ok(obj, IF boilerplates(obj, "issue_missing_data") = <<>>
                       THEN comments_append(a1,
                                Template("issue_missing_data",
                                    [i \in 1..Len(missing) |->
                                        Line("text", <<"-", " ", missing[i]>>)]))
                       ELSE a1)
       ELSE LET a1 == to_unlabel_append(a, "needs_template")
            IN Ok(obj, IF /\ ~\E e \in Range(obj.events) :
                                /\ e.name = "LabeledEvent"
                                /\ e.label = "needs_info"
                                /\ e.author # BOT_ACCOUNT
                          /\ ~Has(cf, "needs_info")
                       THEN to_unlabel_append(a1, "needs_info")
                       ELSE a1)

-----------------------------------------------------------------------------
\* The rule pipeline.

bot_funcs ==
    <<"match_components", "resolved_by_pr", "needs_triage",
      "waiting_on_contributor", "needs_info", "match_object_type",
      "match_version", "ci_comments", "needs_revision", "needs_ci",
      "stale_ci", "docs_only", "backport", "is_module", "needs_rebase",
      "stale_review", "pr_from_upstream", "bad_pr", "linked_objs",
      "needs_template">>

\* f(obj, actions, ctx) for the function named f
call(f, obj, a, cf, fail) ==
    CASE f = "match_components" -> match_components(obj, a, cf, fail)
      [] f = "resolved_by_pr" -> resolved_by_pr(obj, a, cf, fail)
      [] f = "needs_triage" -> needs_triage(obj, a, cf, fail)
      [] f = "waiting_on_contributor" -> waiting_on_contributor(obj, a, cf, fail)
      [] f = "needs_info" -> needs_info(obj, a, cf, fail)
      [] f = "match_object_type" -> match_object_type(obj, a, cf, fail)
      [] f = "match_version" -> match_version(obj, a, cf, fail)
      [] f = "ci_comments" -> ci_comments(obj, a, cf, fail)
      [] f = "needs_revision" -> needs_revision(obj, a, cf, fail)
      [] f = "needs_ci" -> needs_ci(obj, a, cf, fail)
      [] f = "stale_ci" -> stale_ci(obj, a, cf, fail)
      [] f = "docs_only" -> docs_only(obj, a, cf, fail)
      [] f = "backport" -> backport(obj, a, cf, fail)
      [] f = "is_module" -> is_module(obj, a, cf, fail)
      [] f = "needs_rebase" -> needs_rebase(obj, a, cf, fail)
      [] f = "stale_review" -> stale_review(obj, a, cf, fail)
      [] f = "pr_from_upstream" -> pr_from_upstream(obj, a, cf, fail)
      [] f = "bad_pr" -> bad_pr(obj, a, cf, fail)
      [] f = "linked_objs" -> linked_objs(obj, a, cf, fail)
      [] f = "needs_template" -> needs_template(obj, a, cf, fail)

\* The pipeline state after the function f returned r.
called(st, f, r) ==
    [obj |-> r.obj, a |-> r.a, err |-> r.err, invoked |-> Append(st.invoked, f)]

\* Lines 1292-1294: "for f in bot_funcs: f(obj, actions, ctx)" over the
\* functions still to call; it stops at the first that raises. failing names
\* the function whose remote read fails ("" for none).
RECURSIVE run_bot_funcs(_, _, _, _)
run_bot_funcs(funcs, st, cf, failing) ==
    IF funcs = <<>> \/ st.err # "none" THEN st
    ELSE run_bot_funcs(Tail(funcs),
             called(st, Head(funcs),
                    call(Head(funcs), st.obj, st.a, cf, Head(funcs) = failing)),
             cf, failing)

\* The functions that read a remote collaborator.
remote_readers == {"match_components", "resolved_by_pr", "ci_comments"}

\* diff_actions without the two filters; C6 does not hold of it.
diff_actions_unfiltered(a, labels) == a

\* Lines 1297-1298: the accumulator diffed against the labels on the object.
diff_actions(a, labels) ==
    [a EXCEPT !.to_label = SelectSeq(@, LAMBDA l : l \notin labels),
              !.to_unlabel = SelectSeq(@, LAMBDA l : l \in labels)]

\* Line 1300: the labels scheduled to be both added and removed.
common_labels(a) == Range(a.to_label) \cap Range(a.to_unlabel)

-----------------------------------------------------------------------------
\* Objects: the remote's record of an issue or pull request, and the
\* snapshot fetch_object builds from it.

Numbers == 1..NumObjects

\* fetch_object(number, ..., updated_at): a fresh snapshot; updated_at is
\* the timestamp discovery passed in, last_triaged the time of the fetch.
fetch_object(r, updated_at, at) ==
    [kind |-> r.kind, number |-> r.number, author |-> r.author,
     body |-> r.body, events |-> r.events, labels |-> r.labels,
     updated_at |-> updated_at, components |-> <<>>, last_triaged |-> at,
     branch |-> r.branch, files |-> r.files, mergeable |-> r.mergeable,
     changes_requested |-> r.changes_requested, last_review |-> r.last_review,
     last_commit |-> r.last_commit, ci |-> r.ci, azp |-> r.azp,
     from_repo |-> r.from_repo, merge_commit |-> r.merge_commit,
     has_issue |-> r.has_issue]

\* One entry of the mutation log.
Mutation(number, op, labels, body) ==
    [number |-> number, op |-> op, labels |-> labels, body |-> body]

\* The remote's side of the mutations.
RECURSIVE remote_add_labels(_, _, _)
remote_add_labels(r, labels, at) ==
    IF labels = <<>> THEN r
    ELSE remote_add_labels(
            IF Head(labels) \in r.labels THEN r
            ELSE [r EXCEPT !.labels = @ \cup {Head(labels)},
                           !.events = Append(@, LabeledEvent(at, Head(labels), BOT_ACCOUNT)),
                           !.updated_at = at],
            Tail(labels), at)

RECURSIVE remote_remove_labels(_, _, _)
remote_remove_labels(r, labels, at) ==
    IF labels = <<>> THEN r
    ELSE remote_remove_labels(
            IF Head(labels) \notin r.labels THEN r
            ELSE [r EXCEPT !.labels = @ \ {Head(labels)},
                           !.events = Append(@, UnlabeledEvent(at, Head(labels), BOT_ACCOUNT)),
                           !.updated_at = at],
            Tail(labels), at)

remote_add_comment(r, body, at) ==
    [r EXCEPT !.events = Append(@, IssueComment(at, at, BOT_ACCOUNT, body)),
              !.updated_at = at]

remote_close(r, at) == [r EXCEPT !.open = FALSE, !.updated_at = at]

-----------------------------------------------------------------------------
\* triage(objects, dry_run), lines 1235-1323.

obj == objects[cur]

\* An exception leaves triage: nothing catches it.
raise(e) == /\ err' = e
            /\ tpc' = "raised"

\* "continue" and the end of the loop body: the next object, or return.
next_object ==
    IF cur < Len(objects)
    THEN /\ cur' = cur + 1
         /\ tpc' = "commands"
    ELSE /\ cur' = cur
         /\ tpc' = "returned"

\* Lines 1236-1240: the context is fetched (three remote reads), then the
\* loop starts.
TriageBegin ==
    /\ tpc = "begin"
    /\ \E fail \in BOOLEAN :
        IF fail
        THEN /\ raise("URLError")
             /\ UNCHANGED cur
        ELSE /\ err' = err
             /\ cur' = 1
             /\ tpc' = IF objects = <<>> THEN "returned" ELSE "commands"
    /\ UNCHANGED <<dry_run, section_order, now, remote, objects, commands_found, is_bot_broken,
                   is_bot_skip, actions, pre_diff, invoked, ncomment, log,
                   triaged, daemon_vars>>

\* Lines 1242-1274: the commands of the object and the two toggles.
ParseCommands ==
    /\ tpc = "commands"
    /\ commands_found' = parse_commands(obj)
    /\ is_bot_broken' = toggle_effective(commands_found', "bot_broken", "!bot_broken")
    /\ is_bot_skip' = toggle_effective(commands_found', "bot_skip", "!bot_skip")
    /\ actions' = NoActions
    /\ pre_diff' = NoActions
    /\ invoked' = <<>>
    /\ ncomment' = 0
    /\ tpc' = "bot_broken"
    /\ UNCHANGED <<dry_run, section_order, now, remote, objects, cur, log, err, triaged,
                   daemon_vars>>

\* Lines 1275-1284: bot_broken adds the label and skips the object; else
\* the label is removed.
BotBroken ==
    /\ tpc = "bot_broken"
    /\ \E fail \in BOOLEAN :
        IF is_bot_broken
        THEN IF dry_run
             THEN /\ fail = FALSE
                  /\ next_object
                  /\ triaged' = triaged \cup {obj.number}
                  /\ UNCHANGED <<log, remote, err>>
             ELSE IF fail
             THEN /\ raise("URLError")
                  /\ UNCHANGED <<log, remote, cur, triaged>>
             ELSE /\ log' = Append(log, Mutation(obj.number, "add_labels",
                                                 <<"bot_broken">>, <<>>))
                  /\ remote' = [remote EXCEPT ![obj.number] =
                                   remote_add_labels(@, <<"bot_broken">>, now)]
                  /\ next_object
                  /\ triaged' = triaged \cup {obj.number}
                  /\ err' = err
        ELSE IF dry_run
             THEN /\ fail = FALSE
                  /\ tpc' = "bot_skip"
                  /\ UNCHANGED <<log, remote, err, cur, triaged>>
             ELSE IF "bot_broken" \notin obj.labels
             THEN /\ fail = FALSE
                  /\ raise("KeyError")
                  /\ UNCHANGED <<log, remote, cur, triaged>>
             ELSE IF fail
             THEN /\ raise("URLError")
                  /\ UNCHANGED <<log, remote, cur, triaged>>
             ELSE /\ log' = Append(log, Mutation(obj.number, "remove_labels",
                                                 <<"bot_broken">>, <<>>))
                  /\ remote' = [remote EXCEPT ![obj.number] =
                                   remote_remove_labels(@, <<"bot_broken">>, now)]
                  /\ tpc' = "bot_skip"
                  /\ UNCHANGED <<err, cur, triaged>>
    /\ UNCHANGED <<dry_run, section_order, now, objects, commands_found, is_bot_broken,
                   is_bot_skip, actions, pre_diff, invoked, ncomment,
                   daemon_vars>>

\* Lines 1285-1294: bot_skip skips the object; else the rule pipeline runs.
RunBotFuncs ==
    /\ tpc = "bot_skip"
    /\ IF is_bot_skip
       THEN /\ next_object
            /\ triaged' = triaged \cup {obj.number}
            /\ UNCHANGED <<objects, actions, pre_diff, invoked, err>>
       ELSE \E failing \in remote_readers \cup {""} :
            \E st \in {run_bot_funcs(bot_funcs,
                          [obj |-> obj, a |-> NoActions, err |-> "none",
                           invoked |-> <<>>],
                          commands_found, failing)} :
               /\ failing # "" => st.err = "URLError"
               /\ invoked' = st.invoked
               /\ objects' = [objects EXCEPT ![cur] = st.obj]
               /\ IF st.err # "none"
                  THEN /\ raise(st.err)
                       /\ UNCHANGED <<actions, pre_diff, cur, triaged>>
                  ELSE /\ actions' = st.a
                       /\ pre_diff' = st.a
                       /\ tpc' = "diff"
                       /\ UNCHANGED <<err, cur, triaged>>
    /\ UNCHANGED <<dry_run, section_order, now, remote, commands_found, is_bot_broken,
                   is_bot_skip, ncomment, log, daemon_vars>>

\* DiffActions without the dry-run test of line 1306; C7 does not hold of it.
DiffActions_ignoring_dry_run ==
    /\ tpc = "diff"
    /\ actions' = diff_actions(actions, obj.labels)
    /\ IF common_labels(actions') # {}
       THEN /\ raise("AssertionError")
            /\ UNCHANGED <<cur, triaged>>
       ELSE /\ tpc' = "add_labels"
            /\ UNCHANGED <<err, cur, triaged>>
    /\ UNCHANGED <<dry_run, section_order, now, remote, objects, commands_found, is_bot_broken,
                   is_bot_skip, pre_diff, invoked, ncomment, log, daemon_vars>>

\* Lines 1296-1306: the diff against the object's labels, the consistency
\* check, and the dry-run test.
DiffActions ==
    /\ tpc = "diff"
    /\ actions' = diff_actions(actions, obj.labels)
    /\ IF common_labels(actions') # {}
       THEN /\ raise("AssertionError")
            /\ UNCHANGED <<cur, triaged>>
       ELSE IF dry_run
       THEN /\ next_object
            /\ triaged' = triaged \cup {obj.number}
            /\ err' = err
       ELSE /\ tpc' = "add_labels"
            /\ UNCHANGED <<err, cur, triaged>>
    /\ UNCHANGED <<dry_run, section_order, now, remote, objects, commands_found, is_bot_broken,
                   is_bot_skip, pre_diff, invoked, ncomment, log, daemon_vars>>

\* A mutation call of the applier: it is issued and the remote changes, or
\* the call fails and the exception leaves triage.
issue(fail, op, labels, body, r, nxt) ==
    IF fail
    THEN /\ raise("URLError")
         /\ UNCHANGED <<log, remote>>
    ELSE /\ log' = Append(log, Mutation(obj.number, op, labels, body))
         /\ remote' = [remote EXCEPT ![obj.number] = r]
         /\ tpc' = nxt
         /\ err' = err

skip(nxt) ==
    /\ tpc' = nxt
    /\ UNCHANGED <<log, remote, err>>

\* Lines 1307-1308
AddLabels ==
    /\ tpc = "add_labels"
    /\ IF actions.to_label # <<>>
       THEN \E fail \in BOOLEAN :
                issue(fail, "add_labels", actions.to_label, <<>>,
                      remote_add_labels(remote[obj.number], actions.to_label, now),
                      "remove_labels")
       ELSE skip("remove_labels")
    /\ UNCHANGED <<dry_run, section_order, now, objects, cur, commands_found, is_bot_broken,
                   is_bot_skip, actions, pre_diff, invoked, ncomment, triaged,
                   daemon_vars>>

\* Lines 1309-1310; remove_labels looks every label up in obj.labels.
RemoveLabels ==
    /\ tpc = "remove_labels"
    /\ IF actions.to_unlabel # <<>>
       THEN IF ~(Range(actions.to_unlabel) \subseteq obj.labels)
            THEN /\ raise("KeyError")
                 /\ UNCHANGED <<log, remote>>
            ELSE \E fail \in BOOLEAN :
                issue(fail, "remove_labels", actions.to_unlabel, <<>>,
                      remote_remove_labels(remote[obj.number], actions.to_unlabel, now),
                      "comments")
       ELSE skip("comments")
    /\ UNCHANGED <<dry_run, section_order, now, objects, cur, commands_found, is_bot_broken,
                   is_bot_skip, actions, pre_diff, invoked, ncomment, triaged,
                   daemon_vars>>

\* Lines 1312-1313: one turn of the loop over actions.comments.
AddComment ==
    /\ tpc = "comments"
    /\ IF ncomment < Len(actions.comments)
       THEN /\ \E fail \in BOOLEAN :
                issue(fail, "add_comment", <<>>, actions.comments[ncomment + 1],
                      remote_add_comment(remote[obj.number],
                                         actions.comments[ncomment + 1], now),
                      "comments")
            /\ ncomment' = ncomment + 1
       ELSE /\ skip("cancel_ci")
            /\ ncomment' = ncomment
    /\ UNCHANGED <<dry_run, section_order, now, objects, cur, commands_found, is_bot_broken,
                   is_bot_skip, actions, pre_diff, invoked, triaged,
                   daemon_vars>>

\* Lines 1315-1316: cancel_ci(obj.ci.build_id); obj.ci may be None.
CancelCI ==
    /\ tpc = "cancel_ci"
    /\ IF actions.cancel_ci
       THEN IF ~obj.ci.present
            THEN /\ raise("AttributeError")
                 /\ UNCHANGED <<log, remote>>
            ELSE \E fail \in BOOLEAN :
                issue(fail, "cancel_ci", <<>>, <<>>, remote[obj.number], "close")
       ELSE skip("close")
    /\ UNCHANGED <<dry_run, section_order, now, objects, cur, commands_found, is_bot_broken,
                   is_bot_skip, actions, pre_diff, invoked, ncomment, triaged,
                   daemon_vars>>

\* close_object: isinstance(obj, Issue) is tested first, and a PR is an
\* Issue, so every object is closed through close_issue.
close_object(o) == "close_issue"

\* Lines 1318-1323: close, then the loop body ends.
CloseObject ==
    /\ tpc = "close"
    /\ IF actions.close
       THEN \E fail \in BOOLEAN :
            IF fail
            THEN /\ raise("URLError")
                 /\ UNCHANGED <<log, remote, cur, triaged>>
            ELSE /\ log' = Append(log, Mutation(obj.number, close_object(obj), <<>>, <<>>))
                 /\ remote' = [remote EXCEPT ![obj.number] = remote_close(@, now)]
                 /\ next_object
                 /\ triaged' = triaged \cup {obj.number}
                 /\ err' = err
       ELSE /\ next_object
            /\ triaged' = triaged \cup {obj.number}
            /\ UNCHANGED <<log, remote, err>>
    /\ UNCHANGED <<dry_run, section_order, now, objects, commands_found, is_bot_broken,
                   is_bot_skip, actions, pre_diff, invoked, ncomment,
                   daemon_vars>>

Triage ==
    \/ TriageBegin
    \/ ParseCommands
    \/ BotBroken
    \/ RunBotFuncs
    \/ DiffActions
    \/ AddLabels
    \/ RemoveLabels
    \/ AddComment
    \/ CancelCI
    \/ CloseObject

-----------------------------------------------------------------------------
\* fetch_objects(), lines 1490-1534, and daemon(), lines 1537-1560.

\* The numbers of S in ascending order.
RECURSIVE Ascending(_)
Ascending(S) ==
    IF S = {} THEN <<>>
    ELSE LET m == CHOOSE x \in S : \A y \in S : x <= y
         IN <<m>> \o Ascending(S \ {m})

\* get_gh_objects answering with the open objects of both kinds; C12 does
\* not hold of it.
get_gh_objects_of_any_kind(obj_name) ==
    LET ns == Ascending({n \in DOMAIN remote : remote[n].open})
    IN [i \in 1..Len(ns) |->
            [number |-> ns[i], updated_at |-> remote[ns[i]].updated_at]]

\* get_gh_objects(obj_name), lines 1355-1393: the open objects of one kind,
\* each with the greatest of the timestamps the remote reports for it.
get_gh_objects(obj_name) ==
    LET kind == IF obj_name = "issues" THEN "Issue" ELSE "PR"
        ns == Ascending({n \in DOMAIN remote :
                            remote[n].open /\ remote[n].kind = kind})
    IN [i \in 1..Len(ns) |->
            [number |-> ns[i], updated_at |-> remote[ns[i]].updated_at]]

\* The re-fetch condition without the staleness window; C9 does not hold
\* of it.
selected_without_staleness(c, number, updated_at) ==
    \/ number \notin DOMAIN c
    \/ c[number].updated_at < updated_at

\* Lines 1503-1505: the condition under which an enumerated object is kept
\* for re-fetch, given the cache c.
selected(c, number, updated_at) ==
    \/ number \notin DOMAIN c
    \/ c[number].updated_at < updated_at
    \/ days_since(c[number].last_triaged) >= STALE_ISSUE_DAYS

\* A future of an executor.
Future(name, number, updated_at) ==
    [name |-> name, number |-> number, updated_at |-> updated_at,
     state |-> "pending"]

\* Lines 1493-1497: the two enumerations are submitted.
enumerations == <<Future("issues", 0, 0), Future("prs", 0, 0)>>

all_done == \A i \in 1..Len(futures) : futures[i].state = "done"

\* An exception leaves daemon(): nothing catches it and the process ends.
crash(e) ==
    /\ err' = e
    /\ dpc' = "crashed"

\* Lines 1498-1506: one enumeration completes (in either order); its result
\* is filtered against the cache, or its exception is re-raised.
Discovered ==
    /\ dpc = "discover"
    /\ \E i \in 1..Len(futures), fail \in BOOLEAN :
        /\ futures[i].state = "pending"
        /\ IF fail
           THEN /\ crash("get_gh_objects failed")
                /\ UNCHANGED <<number_map, listed, futures>>
           ELSE /\ number_map' = [number_map EXCEPT ![futures[i].name] =
                    SelectSeq(get_gh_objects(futures[i].name),
                              LAMBDA e : selected(cache, e.number, e.updated_at))]
                /\ listed' = listed \cup Range(get_gh_objects(futures[i].name))
                /\ futures' = [futures EXCEPT ![i].state = "done"]
                /\ UNCHANGED <<err, dpc>>
    /\ UNCHANGED <<dry_run, section_order, now, remote, log, cache, data, cycle, triage_vars>>

\* Lines 1508-1526: nothing selected returns the empty map (and daemon goes
\* to sleep, lines 1553-1560); else one fetch per selected number is
\* submitted, issues first.
SubmitFetches ==
    /\ dpc = "discover"
    /\ all_done
    /\ IF number_map.issues = <<>> /\ number_map.prs = <<>>
       THEN /\ dpc' = "sleep"
            /\ futures' = <<>>
       ELSE /\ dpc' = "fetch"
            /\ futures' =
                 [i \in 1..Len(number_map.issues) |->
                    Future("issue", number_map.issues[i].number,
                           number_map.issues[i].updated_at)]
                 \o [i \in 1..Len(number_map.prs) |->
                    Future("pullRequest", number_map.prs[i].number,
                           number_map.prs[i].updated_at)]
    /\ UNCHANGED <<dry_run, section_order, now, remote, log, err, cache, number_map, listed,
                   data, cycle, triage_vars>>

\* Lines 1529-1531: one fetch completes (in any order); its object enters
\* the results map, or its exception is re-raised.
Fetched ==
    /\ dpc = "fetch"
    /\ \E i \in 1..Len(futures), fail \in BOOLEAN :
        /\ futures[i].state = "pending"
        /\ IF fail
           THEN /\ crash("fetch_object failed")
                /\ UNCHANGED <<data, futures>>
           ELSE /\ data' = Append(data, fetch_object(remote[futures[i].number],
                                                     futures[i].updated_at, now))
                /\ futures' = [futures EXCEPT ![i].state = "done"]
                /\ UNCHANGED <<err, dpc>>
    /\ UNCHANGED <<dry_run, section_order, now, remote, log, cache, number_map, listed, cycle,
                   triage_vars>>

\* cache.update(data): the entries of data replace those of the cache.
cache_update(c, d) ==
    [n \in DOMAIN c \cup {d[i].number : i \in 1..Len(d)} |->
        IF \E i \in 1..Len(d) : d[i].number = n
        THEN d[CHOOSE i \in 1..Len(d) : d[i].number = n]
        ELSE c[n]]

\* FetchReturn without the wait for the fetch futures; C13 does not hold of
\* it.
FetchReturn_without_waiting ==
    /\ dpc = "fetch"
    /\ cache' = cache_update(cache, data)
    /\ objects' = data
    /\ dpc' = "triage"
    /\ tpc' = "begin"
    /\ cur' = 0
    /\ triaged' = {}
    /\ UNCHANGED <<dry_run, section_order, now, remote, log, err, number_map, listed, futures,
                   data, cycle, commands_found, is_bot_broken, is_bot_skip,
                   actions, pre_diff, invoked, ncomment>>

\* Lines 1533-1534 and 1543-1544: the fetched objects go to the cache and
\* are handed to triage.
FetchReturn ==
    /\ dpc = "fetch"
    /\ all_done
    /\ cache' = cache_update(cache, data)
    /\ objects' = data
    /\ dpc' = "triage"
    /\ tpc' = "begin"
    /\ cur' = 0
    /\ triaged' = {}
    /\ UNCHANGED <<dry_run, section_order, now, remote, log, err, number_map, listed, futures,
                   data, cycle, commands_found, is_bot_broken, is_bot_skip,
                   actions, pre_diff, invoked, ncomment>>

\* Lines 1545-1548: after triage returned, every object of the batch is
\* stamped with the time and written to the cache.
stamped(objs, at) == [i \in 1..Len(objs) |-> [objs[i] EXCEPT !.last_triaged = at]]

DaemonSave ==
    /\ dpc = "triage"
    /\ tpc = "returned"
    /\ cache' = cache_update(cache, stamped(objects, now))
    /\ dpc' = "sleep"
    /\ tpc' = "idle"
    /\ UNCHANGED <<dry_run, section_order, now, remote, log, err, number_map, listed, futures,
                   data, cycle, objects, cur, commands_found, is_bot_broken,
                   is_bot_skip, actions, pre_diff, invoked, ncomment, triaged>>

\* What the clock may advance by while the daemon sleeps SLEEP_SECONDS.
SleepTicks == {0, 1}

\* Lines 1559-1560, then the next turn of the loop up to line 1497.
Sleep ==
    /\ dpc = "sleep"
    /\ cycle < MaxCycles
    /\ \E d \in SleepTicks : now' = now + d
    /\ cycle' = cycle + 1
    /\ dpc' = "discover"
    /\ futures' = enumerations
    /\ number_map' = [issues |-> <<>>, prs |-> <<>>]
    /\ listed' = {}
    /\ data' = <<>>
    /\ UNCHANGED <<dry_run, section_order, remote, log, err, cache, triage_vars>>

\* The daemon has stopped: an exception left fetch_objects or triage, and
\* daemon() has no handler.
daemon_stopped == dpc = "crashed" \/ (dpc = "triage" /\ tpc = "raised")

Daemon ==
    \/ Discovered
    \/ SubmitFetches
    \/ Fetched
    \/ FetchReturn
    \/ DaemonSave
    \/ Sleep

-----------------------------------------------------------------------------
\* The objects the specifications start from.

Day(d) == d * TicksPerDay

\* The clock at the start: day 40.
Now0 == Day(40)

Heading(name) == Line("heading", <<name>>)

\* An issue body with every section of the template.
FullTemplate ==
    <<Heading("Summary"), Line("text", <<"it", " ", "fails">>),
      Heading("Issue Type"), Line("text", <<"bug", " ", "report">>),
      Heading("Component Name"), Line("text", <<"copy">>),
      Heading("Ansible Version"), Line("version", <<"2", "14", "1">>),
      Heading("Configuration"), Heading("OS / Environment"),
      Line("text", <<"linux">>)>>

\* A body that lacks sections of the template.
PartialTemplate ==
    <<Heading("Summary"), Line("text", <<"it", " ", "fails">>)>>

NoAzp == [gone |-> FALSE, failed_jobs |-> 0, verifieds |-> <<>>, results |-> <<>>]

\* The greatest timestamp the remote reports for an object (get_gh_objects,
\* lines 1373-1385), never below `floor`.
latest(events, ci, floor) ==
    MaxOf({floor} \cup {e.created_at : e \in Range(events)}
                  \cup {e.updated_at : e \in Range(events)}
                  \cup (IF ci.present THEN {ci.updated_at} ELSE {}))

Issue(number, body, events, labels) ==
    [kind |-> "Issue", number |-> number, author |-> "author", body |-> body,
     events |-> events, labels |-> labels,
     updated_at |-> latest(events, NoCI, Day(1)), open |-> TRUE,
     branch |-> <<>>, files |-> <<>>, mergeable |-> "",
     changes_requested |-> FALSE, last_review |-> <<>>, last_commit |-> 0,
     ci |-> NoCI, azp |-> NoAzp, from_repo |-> "", merge_commit |-> FALSE,
     has_issue |-> FALSE]

PR(number, events, labels, branch, files, mergeable, changes_requested, last_review, ci, azp, from_repo, merge_commit, has_issue) ==
    [kind |-> "PR", number |-> number, author |-> "author",
     body |-> <<Heading("Summary"), Line("text", <<"a", " ", "fix">>),
                Heading("Issue Type"), Line("text", <<"bugfix", " ", "pull", " ", "request">>)>>,
     events |-> events, labels |-> labels,
     updated_at |-> latest(events, ci, Day(20)), open |-> TRUE,
     branch |-> branch, files |-> files, mergeable |-> mergeable,
     changes_requested |-> changes_requested, last_review |-> last_review,
     last_commit |-> Day(20), ci |-> ci, azp |-> azp, from_repo |-> from_repo,
     merge_commit |-> merge_commit, has_issue |-> has_issue]

\* Sequences over S of length at most n.
SeqsUpTo(S, n) == UNION {[1..k -> S] : k \in 0..n}

\* Toggle histories: up to MaxComments comments, each one toggle command;
\* comment i is created on day 10 + i and either never edited or edited on
\* day 30. The body may carry a command too.
ToggleCommands == {"bot_skip", "!bot_skip", "bot_broken", "!bot_broken"}

ToggleComments ==
    {[i \in 1..Len(c) |->
        IssueComment(Day(10 + i), IF c[i].edited THEN Day(30) ELSE Day(10 + i),
                     "other", <<Cmd(c[i].cmd)>>)] :
     c \in SeqsUpTo([cmd : ToggleCommands, edited : BOOLEAN], MaxComments)}

ToggleObjects ==
    {Issue(1, FullTemplate \o extra, events, labels) :
        extra \in {<<>>, <<Cmd("bot_skip")>>, <<Cmd("bot_broken")>>},
        events \in ToggleComments,
        labels \in {{}, {"bot_broken"}}}

\* needs_info histories: the label event (or none) so many days and ticks
\* before the start of the clock, and up to MaxComments
\* comments before or after it: a reply of the author, a needs_info command
\* of somebody else, the bot's warning.
LabelingChoices ==
    {[by |-> BOT_ACCOUNT, days |-> 15, ticks |-> 0],
     [by |-> "committer", days |-> 15, ticks |-> 0],
     [by |-> "committer", days |-> 29, ticks |-> 0],
     [by |-> "committer", days |-> 13, ticks |-> 0],
     [by |-> "committer", days |-> NEEDS_INFO_WARN_DAYS, ticks |-> 0],
     [by |-> "committer", days |-> NEEDS_INFO_CLOSE_DAYS, ticks |-> 0],
     [by |-> "committer", days |-> NEEDS_INFO_CLOSE_DAYS, ticks |-> 1]}

InfoCommentKinds == {"reply", "command", "warned"}

info_comment(kind, at) ==
    CASE kind = "reply" -> IssueComment(at, at, "author", <<Line("text", <<"here", " ", "it", " ", "is">>)>>)
      [] kind = "command" -> IssueComment(at, at, "other", <<Cmd("needs_info")>>)
      [] kind = "warned" -> IssueComment(at, at, BOT_ACCOUNT, Template("needs_info_warn", <<>>))

\* c: the comments in order, each [kind, after]; those with after = FALSE
\* come first and precede the label event at time L, the first of the
\* others is made at the very time L, the next after it.
info_events(c, labeling, L) ==
    LET m == Cardinality({i \in 1..Len(c) : ~c[i].after})
        before == [i \in 1..m |-> info_comment(c[i].kind, L - (m - i + 1))]
        after == [i \in 1..(Len(c) - m) |-> info_comment(c[m + i].kind, L + i - 1)]
    IN before \o labeling \o after

InfoComments ==
    {c \in SeqsUpTo([kind : InfoCommentKinds, after : BOOLEAN], MaxComments) :
        \A i \in 1..Len(c), j \in 1..Len(c) : i < j /\ c[i].after => c[j].after}

InfoObjects ==
    {Issue(1, body, info_events(c, <<LabeledEvent(Now0 - Day(l.days) - l.ticks, "needs_info", l.by)>>,
                                Now0 - Day(l.days) - l.ticks), labels \cup broken) :
        body \in {FullTemplate, PartialTemplate},
        c \in InfoComments,
        l \in LabelingChoices,
        labels \in {{}, {"needs_info"}},
        broken \in {{}, {"bot_broken"}}}
    \cup
    {Issue(1, body, info_events(c, <<>>, Now0 - Day(15)), labels \cup broken) :
        body \in {FullTemplate, PartialTemplate},
        c \in {x \in InfoComments : \A i \in 1..Len(x) : x[i].after},
        labels \in {{}, {"needs_info"}},
        broken \in {{}, {"bot_broken"}}}

\* Pull requests.
LabelChoices ==
    {{}, {"bot_broken"},
     {"bot_broken", "needs_revision", "needs_rebase", "stale_review", "needs_ci",
      "ci_verified", "backport", "has_issue", "stale_ci", "module", "docs_only",
      "pre_azp"}}

CIChoices ==
    {NoCI, CI("success", "completed", Now0 - Day(1)),
     CI("failure", "completed", Now0 - Day(10)),
     CI("", "in_progress", Now0 - Day(1))}

AzpChoices ==
    {[gone |-> TRUE, failed_jobs |-> 0, verifieds |-> <<>>, results |-> <<>>],
     NoAzp,
     [gone |-> FALSE, failed_jobs |-> 1, verifieds |-> <<TRUE>>, results |-> <<"traceback">>],
     [gone |-> FALSE, failed_jobs |-> 2, verifieds |-> <<FALSE>>, results |-> <<"timeout">>]}

FileChoices ==
    {<<<<"docs", "/", "index", ".rst">>>>,
     <<<<"lib", "/", "ansible", "/", "modules", "/", "copy", ".py">>,
       <<"docs", "/", "index", ".rst">>>>,
     <<<<"bin", "/", "ansible">>>>}

CIObjects ==
    {PR(1, <<>>, labels, <<"devel">>, <<<<"bin", "/", "ansible">>>>, "mergeable",
        FALSE, <<>>, ci, azp, from_repo, merge_commit, FALSE) :
        labels \in LabelChoices, ci \in CIChoices, azp \in AzpChoices,
        from_repo \in {"ansible/ansible", "contributor/ansible"},
        merge_commit \in BOOLEAN}

ReviewObjects ==
    {PR(1, <<>>, labels, branch, files, mergeable, changes_requested,
        last_review, CI("success", "completed", Now0 - Day(1)), NoAzp,
        "contributor/ansible", FALSE, has_issue) :
        labels \in LabelChoices,
        branch \in {<<"devel">>, <<"stable-", "2", ".", "14">>},
        files \in FileChoices,
        mergeable \in {"mergeable", "conflicting", "unknown"},
        changes_requested \in BOOLEAN,
        last_review \in {<<>>, <<Day(19)>>, <<Day(21)>>},
        has_issue \in BOOLEAN}

\* Issues with a component section and component commands in comments.
ComponentLines ==
    {<<"copy">>,
     <<"cloud", "/", "aws", "/", "ec", "2", ".py">>,
     <<"nmcli">>,
     <<"community", ".", "general", ".", "nmcli">>,
     <<"lib", "/", "ansible", "/", "modules", "/", "cloud", "/", "ec", ".py">>,
     <<"route", ",", "Copy", " ", "module">>}

ComponentCommandLines ==
    {Line("component", <<"=", "a">>), Line("component", <<"+", "b">>),
     Line("component", <<"-", "a">>), Cmd("!needs_collection_redirect")}

ComponentBody(line) ==
    <<Heading("Summary"), Heading("Issue Type"), Line("text", <<"feature", " ", "idea">>),
      Heading("Component Name"), Line("text", line),
      Heading("Ansible Version"), Heading("Configuration"),
      Heading("OS / Environment")>>

ComponentObjects ==
    {Issue(1, ComponentBody(line),
           [i \in 1..Len(c) |-> IssueComment(Day(10 + i), Day(10 + i), "other", <<c[i]>>)],
           labels) :
        line \in ComponentLines,
        c \in SeqsUpTo(ComponentCommandLines, MaxComments),
        labels \in {{}, {"bot_broken"}}}

\* Issues with component commands in the body and in comments, a comment
\* being either never edited or edited on day 30; one of the directives has
\* an operator that is none of = + -.
OverlayCommandLines ==
    {Line("component", <<"=", "a">>), Line("component", <<"+", "b">>),
     Line("component", <<"-", "a">>), Line("component", <<"*", "a">>)}

OverlayComments ==
    {[i \in 1..Len(c) |->
        IssueComment(Day(10 + i), IF c[i].edited THEN Day(30) ELSE Day(10 + i),
                     "other", <<c[i].line>>)] :
     c \in SeqsUpTo([line : OverlayCommandLines, edited : BOOLEAN], MaxComments)}

OverlayObjects ==
    {Issue(1, ComponentBody(<<"copy">>) \o extra, events, {"bot_broken"}) :
        extra \in {<<>>, <<Line("component", <<"+", "b">>)>>},
        events \in OverlayComments}

\* Issues with a component command whose path carries characters of the
\* comment's markup, and with or without a components comment of the bot
\* from an earlier run.
BannerCommandLines ==
    {Line("component", <<"+", "b">>),
     Line("component", <<"+", "[", "a", "]">>),
     Line("component", <<"=", "a", "(", "b", ")", ".py">>)}

CopyModule == <<"lib", "/", "ansible", "/", "modules", "/", "copy", ".py">>

BannerLists == {<<CopyModule>>, <<CopyModule, <<"b">>>>, <<CopyModule, <<"a">>>>}

BannerObjects ==
    {Issue(1, ComponentBody(<<"copy">>),
           [i \in 1..Len(c) |-> IssueComment(Day(10 + i), Day(10 + i), "other", <<c[i]>>)]
               \o posted,
           {"bot_broken"}) :
        c \in SeqsUpTo(BannerCommandLines, 1),
        posted \in {<<>>} \cup
            {<<IssueComment(Day(20), Day(20), BOT_ACCOUNT, components_banner(l))>> :
                l \in BannerLists}}

\* Issues that were labeled needs_triage or triage before, with the label
\* still on them or taken off by a committer.
TriageHistories ==
    {[events |-> <<LabeledEvent(Day(5), "needs_triage", BOT_ACCOUNT)>>,
      labels |-> {"needs_triage"}],
     [events |-> <<LabeledEvent(Day(5), "needs_triage", BOT_ACCOUNT),
                   UnlabeledEvent(Day(6), "needs_triage", "committer")>>,
      labels |-> {}],
     [events |-> <<LabeledEvent(Day(5), "triage", "committer")>>,
      labels |-> {"triage"}],
     [events |-> <<LabeledEvent(Day(5), "triage", "committer"),
                   UnlabeledEvent(Day(6), "triage", "committer")>>,
      labels |-> {}]}

TriagedObjects ==
    {Issue(1, FullTemplate, h.events, h.labels \cup {"bot_broken"}) :
        h \in TriageHistories}

\* Issues with resolved_by_pr lines in comments: references to the merged
\* pull request 7, the open 8 and the missing 9, with and without `#`, and
\* references the pattern lets through that are not numbers.
ResolvedRefs ==
    {<<"7">>, <<"#", "7">>, <<"8">>, <<"9">>, <<"#">>, <<"#", "#", "7">>, <<"7", "#">>}

ResolvedObjects ==
    {Issue(1, FullTemplate,
           [i \in 1..Len(c) |->
               IssueComment(Day(10 + i), Day(10 + i), "other", <<Line("resolved", c[i])>>)],
           {"bot_broken"}) :
        c \in SeqsUpTo(ResolvedRefs, MaxComments) \ {<<>>}}

SpecObjects ==
    ToggleObjects \cup InfoObjects \cup CIObjects \cup ReviewObjects
        \cup ComponentObjects \cup OverlayObjects \cup BannerObjects
        \cup TriagedObjects \cup ResolvedObjects

InitCommon ==
    /\ dry_run \in BOOLEAN
    /\ section_order \in SectionOrders
    /\ now = Now0
    /\ commands_found = [k \in Keywords |-> <<>>]
    /\ is_bot_broken = FALSE
    /\ is_bot_skip = FALSE
    /\ actions = NoActions
    /\ pre_diff = NoActions
    /\ invoked = <<>>
    /\ ncomment = 0
    /\ log = <<>>
    /\ err = "none"
    /\ triaged = {}
    /\ cur = 0

\* triage is called on a batch of one freshly fetched object.
Init ==
    /\ InitCommon
    /\ \E o \in SpecObjects :
        /\ remote = [n \in {1} |-> o]
        /\ objects = <<fetch_object(o, o.updated_at, Now0)>>
    /\ tpc = "begin"
    /\ cache = <<>>
    /\ dpc = "off"
    /\ number_map = <<>>
    /\ listed = {}
    /\ futures = <<>>
    /\ data = <<>>
    /\ cycle = 0

Next == Triage

Spec == Init /\ [][Next]_vars


-----------------------------------------------------------------------------
\* The daemon: NumObjects remote objects, and a cache file left by earlier
\* runs.

\* An issue that carries needs_info, whose author answered, and whose body
\* lacks template sections.
AnsweredIssue(n) ==
    Issue(n, PartialTemplate,
          <<LabeledEvent(Now0 - Day(15), "needs_info", "committer"),
            IssueComment(Now0 - Day(14), Now0 - Day(14), "author",
                         <<Line("text", <<"here", " ", "it", " ", "is">>)>>)>>,
          {"needs_info", "bot_broken"})

\* A new issue: no label, no comment.
NewIssue(n) == Issue(n, FullTemplate, <<>>, {})

\* A pull request opened from a branch of the upstream repository.
UpstreamPR(n, ci, merge_commit) ==
    PR(n, <<>>, {"bot_broken"}, <<"devel">>, <<<<"bin", "/", "ansible">>>>,
       "mergeable", FALSE, <<>>, ci, NoAzp, "ansible/ansible", merge_commit, FALSE)

DaemonObjects(n) ==
    {AnsweredIssue(n), NewIssue(n),
     UpstreamPR(n, CI("success", "completed", Now0 - Day(1)), FALSE),
     UpstreamPR(n, NoCI, TRUE)}

\* What the cache file may hold for the remote object r: nothing, or a
\* snapshot taken at or before r's last change and triaged up to
\* STALE_ISSUE_DAYS days ago.
CacheEntries(r) ==
    {<<>>} \cup
    {<<fetch_object(r, r.updated_at - e.behind, Now0 - e.age)>> :
        e \in {[behind |-> 1, age |-> 0],
               [behind |-> 0, age |-> 0],
               [behind |-> 0, age |-> Day(STALE_ISSUE_DAYS) - 1],
               [behind |-> 0, age |-> Day(STALE_ISSUE_DAYS)]}}

InitDaemon ==
    /\ InitCommon
    /\ remote \in {r \in [Numbers -> UNION {DaemonObjects(n) : n \in Numbers}] :
                        \A n \in Numbers : r[n].number = n}
    /\ \E c \in [Numbers -> UNION {CacheEntries(remote[n]) : n \in Numbers}] :
        /\ \A n \in Numbers : c[n] \in CacheEntries(remote[n])
        /\ cache = [n \in {m \in Numbers : c[m] # <<>>} |-> c[n][1]]
    /\ objects = <<>>
    /\ tpc = "idle"
    /\ dpc = "discover"
    /\ futures = enumerations
    /\ number_map = [issues |-> <<>>, prs |-> <<>>]
    /\ listed = {}
    /\ data = <<>>
    /\ cycle = 1

NextDaemon == Triage \/ Daemon

SpecDaemon == InitDaemon /\ [][NextDaemon]_vars

-----------------------------------------------------------------------------
\* main() with --number, lines 1573-1575: fetch_object_by_number, then
\* triage of the one object.

\* What the remote does with the query of fetch_object (lines 1403-1411):
\* it answers with data; it answers with an error status, which
\* http_request turns into a Response with an empty body (lines 431-436);
\* it answers with a body that is not JSON; or it cannot be reached, and
\* urlopen raises URLError.
Answers == {"answered", "error status", "unparsable", "unreachable"}

\* The exception fetch_object(number, obj, object_name) raises ("none" if
\* it returns): Response.json() raises JSONDecodeError on an empty or
\* unparsable body (line 338), and line 1415 raises ValueError when the
\* answer holds no object of that kind under the number.
fetch_object_raises(answer, number, kind) ==
    CASE answer = "unreachable" -> "URLError"
      [] answer \in {"error status", "unparsable"} -> "JSONDecodeError"
      [] OTHER -> IF number \in DOMAIN remote /\ remote[number].kind = kind
                  THEN "none" ELSE "ValueError"

\* "except ValueError" (line 1484) catches ValueError and its subclasses;
\* json.JSONDecodeError is one.
is_ValueError(e) == e \in {"ValueError", "JSONDecodeError"}

\* The object is handed to triage (line 1575). fetch_object is called
\* without updated_at, so the snapshot carries None (0 here); triage reads
\* it only for commands in the body.
hand_to_triage(number) ==
    /\ objects' = <<fetch_object(remote[number], 0, now)>>
    /\ tpc' = "begin"

\* Line 1483: the number is fetched as an Issue; a ValueError leads to the
\* second fetch, any other exception leaves main().
FetchIssueByNumber ==
    /\ dpc = "main"
    /\ Len(futures) = 1
    /\ futures[1].state = "pending"
    /\ \E answer \in Answers :
        \E e \in {fetch_object_raises(answer, futures[1].number, "Issue")} :
            IF e = "none"
            THEN /\ hand_to_triage(futures[1].number)
                 /\ futures' = [futures EXCEPT ![1].state = "done"]
                 /\ UNCHANGED <<err, dpc>>
            ELSE IF is_ValueError(e)
            THEN /\ futures' = <<[futures[1] EXCEPT !.state = e],
                                 Future("pullRequest", futures[1].number, 0)>>
                 /\ UNCHANGED <<err, dpc, objects, tpc>>
            ELSE /\ futures' = [futures EXCEPT ![1].state = e]
                 /\ crash(e)
                 /\ UNCHANGED <<objects, tpc>>
    /\ UNCHANGED <<dry_run, section_order, now, remote, log, cache, number_map,
                   listed, data, cycle, cur, commands_found, is_bot_broken,
                   is_bot_skip, actions, pre_diff, invoked, ncomment, triaged>>

\* Line 1485: the number is fetched as a PR; nothing catches what this
\* fetch raises.
FetchPRByNumber ==
    /\ dpc = "main"
    /\ Len(futures) = 2
    /\ futures[2].state = "pending"
    /\ \E answer \in Answers :
        \E e \in {fetch_object_raises(answer, futures[2].number, "PR")} :
            IF e = "none"
            THEN /\ hand_to_triage(futures[2].number)
                 /\ futures' = [futures EXCEPT ![2].state = "done"]
                 /\ UNCHANGED <<err, dpc>>
            ELSE /\ futures' = [futures EXCEPT ![2].state = e]
                 /\ crash(e)
                 /\ UNCHANGED <<objects, tpc>>
    /\ UNCHANGED <<dry_run, section_order, now, remote, log, cache, number_map,
                   listed, data, cycle, cur, commands_found, is_bot_broken,
                   is_bot_skip, actions, pre_diff, invoked, ncomment, triaged>>

\* The numbers main() may be given: that of the remote object, and one
\* the remote does not hold.
MainNumbers == {1, NumObjects + 1}

InitMain ==
    /\ InitCommon
    /\ \E o \in DaemonObjects(1) : remote = [n \in {1} |-> o]
    /\ \E number \in MainNumbers : futures = <<Future("issue", number, 0)>>
    /\ objects = <<>>
    /\ tpc = "idle"
    /\ dpc = "main"
    /\ cache = <<>>
    /\ number_map = <<>>
    /\ listed = {}
    /\ data = <<>>
    /\ cycle = 0

NextMain == FetchIssueByNumber \/ FetchPRByNumber \/ Triage

SpecMain == InitMain /\ [][NextMain]_vars

-----------------------------------------------------------------------------
\* Properties of the toggles and of the skip paths.

\* The greatest timestamp among the commands cmds.
greatest(cmds) == MaxOf({cmds[i].updated_at : i \in 1..Len(cmds)})

\* Last write wins: the keyword occurs, and the negation never occurs or
\* the keyword's greatest timestamp is strictly the greater one.
last_write_wins(keyword, negation) ==
    /\ commands_found[keyword] # <<>>
    /\ \/ commands_found[negation] = <<>>
       \/ greatest(commands_found[keyword]) > greatest(commands_found[negation])

past_toggles ==
    /\ cur >= 1
    /\ tpc \in {"bot_skip", "diff", "add_labels", "remove_labels", "comments",
                "cancel_ci", "close", "returned", "raised"}
    /\ err # "URLError"

\* Triage is past the pipeline step of the current object.
past_pipeline ==
    /\ cur >= 1
    /\ tpc \in {"diff", "add_labels", "remove_labels", "comments",
                "cancel_ci", "close", "returned", "raised"}
    /\ err # "URLError"

\* C2: with bot_broken in effect no evaluator is invoked and the only
\* mutation is adding the label bot_broken; else with bot_skip in effect no
\* evaluator is invoked and no comment, close or cancel-CI is issued; else
\* every evaluator of bot_funcs is invoked exactly once, in list order.
C2_SkipOrFullPipeline ==
    /\ past_toggles /\ is_bot_broken =>
        /\ invoked = <<>>
        /\ \A i \in 1..Len(log) :
            log[i].op = "add_labels" /\ log[i].labels = <<"bot_broken">>
    /\ past_toggles /\ ~is_bot_broken /\ is_bot_skip =>
        /\ invoked = <<>>
        /\ \A i \in 1..Len(log) : log[i].op \in {"add_labels", "remove_labels"}
    /\ past_pipeline /\ ~is_bot_broken /\ ~is_bot_skip => invoked = bot_funcs

\* C3: a label in both to_label and to_unlabel at the end of the pipeline
\* makes triage raise the consistency error: triage is then either about to
\* check, or it has raised that error, and it never goes on to apply or to
\* finish the object.
C3_ConflictIsFatal ==
    common_labels(pre_diff) # {} =>
        \/ tpc = "diff"
        \/ tpc = "raised" /\ err = "AssertionError"

\* C4: when triage ends with a failure of one object, every other object of
\* the batch has been triaged.
C4_FailureIsIsolated ==
    tpc = "raised" /\ cur >= 1 =>
        \A i \in 1..Len(objects) : i # cur => objects[i].number \in triaged

-----------------------------------------------------------------------------
\* Properties of the pipeline's result and of the applier.

\* The diff step of the current object is done and nothing of its result
\* has been applied yet.
just_diffed ==
    /\ cur >= 1
    /\ invoked = bot_funcs
    /\ \/ tpc = "add_labels"
       \/ dry_run /\ tpc = "returned"

RECURSIVE remote_add_comments(_, _, _)
remote_add_comments(r, cs, at) ==
    IF cs = <<>> THEN r
    ELSE remote_add_comments(remote_add_comment(r, Head(cs), at), Tail(cs), at)

\* The object as fetched again once the label changes and comments of the
\* accumulator a are on the remote.
refetched(r, a) ==
    fetch_object(
        remote_add_comments(
            remote_remove_labels(remote_add_labels(r, a.to_label, now),
                                 a.to_unlabel, now),
            a.comments, now),
        now, now)

\* The diffed result of one more run of the pipeline on the object o.
second_run(o) ==
    LET st == run_bot_funcs(bot_funcs,
                            [obj |-> o, a |-> NoActions, err |-> "none",
                             invoked |-> <<>>],
                            parse_commands(o), "")
    IN [err |-> st.err, a |-> diff_actions(st.a, o.labels)]

\* C5: when the label changes and comments one run computed are applied
\* and the pipeline runs again with nothing else changed, to_label and
\* to_unlabel are both empty after the diff of the second run.
C5_PipelineIdempotent ==
    just_diffed =>
        LET again == second_run(refetched(remote[obj.number], actions))
        IN again.err = "none" =>
            /\ again.a.to_label = <<>>
            /\ again.a.to_unlabel = <<>>

\* The accumulator of the current object has been diffed.
diffed ==
    /\ cur >= 1
    /\ invoked = bot_funcs
    /\ tpc \in {"add_labels", "remove_labels", "comments", "cancel_ci",
                "close", "returned"}

\* The mutations the applier issued for the current object: those after the
\* removal of bot_broken that precedes the pipeline.
applier_log == IF invoked = bot_funcs /\ log # <<>> THEN Tail(log) ELSE <<>>

\* C6: after the diff, to_label holds no label that is on the object and
\* to_unlabel only labels that are on it; the labels the applier adds are
\* not on the object and those it removes are.
C6_DiffedAgainstLabels ==
    diffed =>
        /\ Range(actions.to_label) \cap obj.labels = {}
        /\ Range(actions.to_unlabel) \subseteq obj.labels
        /\ \A i \in 1..Len(applier_log) :
            /\ applier_log[i].op = "add_labels" =>
                Range(applier_log[i].labels) \cap obj.labels = {}
            /\ applier_log[i].op = "remove_labels" =>
                Range(applier_log[i].labels) \subseteq obj.labels

\* The diff dropped a label that was already on the object and kept one
\* that was not, and the applier has added the latter.
C6_Witness ==
    /\ diffed
    /\ tpc = "remove_labels"
    /\ actions.to_label # <<>>
    /\ Len(actions.to_label) < Len(pre_diff.to_label)
    /\ \E i \in 1..Len(applier_log) : applier_log[i].op = "add_labels"

\* C7: in dry-run mode no mutation is issued on any path, the bot_broken and
\* bot_skip paths included, and an object that is not skipped still has
\* every evaluator of the pipeline run on it.
C7_DryRunIssuesNothing ==
    dry_run =>
        /\ log = <<>>
        /\ \A n \in DOMAIN remote :
            ~\E i \in 1..Len(remote[n].events) :
                remote[n].events[i].author = BOT_ACCOUNT
                /\ remote[n].events[i].created_at = now
        /\ cur >= 1 /\ tpc = "returned" /\ ~is_bot_broken /\ ~is_bot_skip =>
            invoked = bot_funcs

\* A dry run finished an object whose pipeline scheduled a label, a comment
\* and the close, and nothing was issued.
C7_Witness ==
    /\ dry_run
    /\ tpc = "returned"
    /\ invoked = bot_funcs
    /\ actions.to_label # <<>>
    /\ actions.comments # <<>>
    /\ actions.close
    /\ log = <<>>

\* The place of a mutation in the order of the applier.
rank(op) ==
    CASE op = "add_labels" -> 1
      [] op = "remove_labels" -> 2
      [] op = "add_comment" -> 3
      [] op = "cancel_ci" -> 4
      [] OTHER -> 5

comments_issued == SelectSeq(applier_log, LAMBDA m : m.op = "add_comment")

\* The applier is through with the current object, or left it through an
\* exception that is not a failed remote call.
applier_ended ==
    /\ ~dry_run
    /\ cur >= 1
    /\ invoked = bot_funcs
    /\ \/ tpc = "returned"
       \/ tpc = "raised" /\ err \notin {"URLError", "none"}

\* C8: outside dry-run the mutations of one object are issued in the order
\* label additions, label removals, the comments in the order they were
\* appended, cancel-CI, close; and when both the cancel-CI and the close
\* flag are set, both mutations are issued.
C8_ApplierOrder ==
    /\ \A i \in 1..Len(applier_log), j \in 1..Len(applier_log) :
        i < j => rank(applier_log[i].op) <= rank(applier_log[j].op)
    /\ invoked = bot_funcs =>
        \A i \in 1..Len(comments_issued) :
            comments_issued[i].body = actions.comments[i]
    /\ applier_ended /\ actions.cancel_ci /\ actions.close =>
        /\ \E i \in 1..Len(applier_log) : applier_log[i].op = "cancel_ci"
        /\ \E i \in 1..Len(applier_log) : rank(applier_log[i].op) = 5

-----------------------------------------------------------------------------
\* Properties of the daemon.

\* The enumeration named name has delivered its result.
enumerated(name) ==
    \E i \in 1..Len(futures) :
        futures[i].name = name /\ futures[i].state = "done"

\* The numbers discovery kept for re-fetch.
kept ==
    {number_map.issues[i].number : i \in 1..Len(number_map.issues)}
        \cup {number_map.prs[i].number : i \in 1..Len(number_map.prs)}

\* The re-fetch rule: absent from the cache, or changed on the remote since
\* the cached snapshot, or last triaged seven or more whole days ago.
due(e) ==
    \/ e.number \notin DOMAIN cache
    \/ e.updated_at > cache[e.number].updated_at
    \/ (now - cache[e.number].last_triaged) \div TicksPerDay >= 7

\* C9: an enumerated object is kept for re-fetch if and only if it is
\* absent from the cache, or its remote timestamp is strictly greater than
\* the cached one, or it was last triaged at least 7 whole days ago; only
\* such objects are fetched in the cycle.
C9_SelectedIffDue ==
    /\ dpc = "discover" =>
        \A e \in listed : e.number \in kept <=> due(e)
    /\ dpc = "fetch" =>
        /\ \A e \in listed : e.number \in kept <=> due(e)
        /\ \A i \in 1..Len(futures) :
            \E e \in listed : e.number = futures[i].number /\ due(e)
        /\ \A i \in 1..Len(data) :
            \E e \in listed : e.number = data[i].number /\ due(e)

\* In one cycle an object is fetched on staleness alone while another,
\* cached, unchanged and triaged less than 7 days ago, is left out.
C9_Witness ==
    /\ dpc = "fetch"
    /\ data # <<>>
    /\ \E e \in listed :
        /\ e.number \in DOMAIN cache
        /\ e.updated_at = cache[e.number].updated_at
        /\ \E i \in 1..Len(data) : data[i].number = e.number
    /\ \E e \in listed :
        /\ e.number \in DOMAIN cache
        /\ ~due(e)
        /\ \A i \in 1..Len(futures) : futures[i].number # e.number

\* C10: the daemon loop is never stopped by the failed fetch of one object
\* or by a failure while one object is triaged.
C10_LoopSurvivesObjectFailures ==
    /\ ~(dpc = "crashed" /\ err = "fetch_object failed")
    /\ ~(dpc = "triage" /\ tpc = "raised" /\ cur >= 1)

-----------------------------------------------------------------------------
\* Properties of the cache.

\* The cache holds the snapshot d that was fetched in this cycle.
recorded(d) ==
    /\ d.number \in DOMAIN cache
    /\ cache[d.number].updated_at = d.updated_at
    /\ cache[d.number].last_triaged >= d.last_triaged

\* The snapshots fetched in this cycle are in the cache only once their
\* triage pass is over.
recorded_after_triage ==
    \A i \in 1..Len(data) : recorded(data[i]) => data[i].number \in triaged

\* When triage ended on a failure, every object of the batch whose pass is
\* not over is one the next discovery selects.
unfinished_are_retried ==
    dpc = "triage" /\ tpc = "raised" =>
        \A i \in 1..Len(objects) :
            objects[i].number \notin triaged /\ remote[objects[i].number].open =>
                selected(cache, objects[i].number,
                         remote[objects[i].number].updated_at)

\* C11: an object's snapshot is recorded in the cache only after the triage
\* pass of that object has completed, so that an object whose fetch or
\* triage did not complete is selected again by the next discovery.
C11_CachedOnlyAfterTriage ==
    /\ recorded_after_triage
    /\ unfinished_are_retried

-----------------------------------------------------------------------------
\* Properties of the fetch stage.

\* The numbers of the fetch futures in the state st.
fetches(st) ==
    {futures[i].number : i \in {j \in 1..Len(futures) : futures[j].state = st}}

\* The keys of the results map.
keys == {data[i].number : i \in 1..Len(data)}

\* C12: in the fetch stage no two futures fetch the same number, every
\* resolved future has put exactly one key into the results map, and when
\* every fetch has succeeded the keys of the map handed on are the numbers
\* discovery selected, whatever the order the fetches completed in.
C12_OneFetchPerNumber ==
    /\ dpc = "fetch" =>
        /\ \A i, j \in 1..Len(futures) :
            futures[i].number = futures[j].number => i = j
        /\ \A i, j \in 1..Len(data) : data[i].number = data[j].number => i = j
        /\ keys = fetches("done")
        /\ all_done => keys = kept
    /\ dpc = "triage" =>
        {objects[i].number : i \in 1..Len(objects)} = kept

\* Two fetches were submitted and both completed, the later submitted first.
C12_Witness ==
    /\ dpc = "fetch"
    /\ all_done
    /\ Len(futures) = 2
    /\ Len(data) = 2
    /\ data[1].number = futures[2].number

\* Triage is at work on the batch.
triaging == tpc \notin {"idle", "returned", "raised"}

\* Every fetched snapshot of the batch is in the cache.
cache_updated ==
    \A i \in 1..Len(data) :
        /\ data[i].number \in DOMAIN cache
        /\ cache[data[i].number].updated_at = data[i].updated_at

\* A step that evaluates the rules or issues a mutation is taken after every
\* fetch has resolved and the cache is updated, a mutation is for the one
\* object triage is at, and a step that resolves a fetch is taken while
\* triage is not at work.
fetch_apart_from_triage ==
    /\ invoked' # invoked /\ invoked' # <<>> =>
        dpc = "triage" /\ all_done /\ cache_updated
    /\ log' # log =>
        /\ dpc = "triage" /\ all_done /\ cache_updated
        /\ Len(log') = Len(log) + 1
        /\ Last(log').number = obj.number
    /\ data' # data => ~triaging

\* C13: the fetch, the rule evaluation and the mutations of an object never
\* overlap: triage works only once every fetch future of the cycle has
\* resolved and the cache has been updated, and it is at one object at a
\* time.
C13_FetchThenTriage ==
    /\ [](triaging => dpc = "triage" /\ all_done /\ cache_updated)
    /\ [][fetch_apart_from_triage]_vars

\* Two objects were fetched, and triage has issued a mutation for the first
\* and is at the second.
C13_Witness ==
    /\ dpc = "triage"
    /\ Len(objects) = 2
    /\ cur = 2
    /\ triaging
    /\ log # <<>>

-----------------------------------------------------------------------------
\* Properties of the command index.

\* The commands cmds are in non-decreasing order of timestamp.
sorted_by_timestamp(cmds) ==
    \A i, j \in 1..Len(cmds) : i < j => cmds[i].updated_at <= cmds[j].updated_at

\* C14: when the toggles are computed and when the rules read the command
\* index, the commands of every keyword are in non-decreasing order of
\* timestamp, so that the last command of a list has the greatest one.
C14_CommandsSortedByTimestamp ==
    cur >= 1 /\ tpc \in {"bot_broken", "bot_skip"} =>
        \A k \in Keywords :
            /\ sorted_by_timestamp(commands_found[k])
            /\ commands_found[k] # <<>> =>
                Last(commands_found[k]).updated_at = greatest(commands_found[k])

\* !bot_broken is in effect: it occurs and no later bot_broken overrides it.
unbroken_in_effect ==
    /\ commands_found["!bot_broken"] # <<>>
    /\ ~last_write_wins("bot_broken", "!bot_broken")

\* C15: the label bot_broken is removed only for an object for which
\* !bot_broken is in effect and whose pipeline is not skipped by bot_skip.
C15_BotBrokenRemovedOnCommand ==
    \A i \in 1..Len(log) :
        log[i].op = "remove_labels" /\ "bot_broken" \in Range(log[i].labels) =>
            /\ unbroken_in_effect
            /\ ~is_bot_skip

-----------------------------------------------------------------------------
\* Properties of component matching.

\* The components the body of the issue o names.
body_components(o) ==
    LET sec == Section(o.body, "Component Name")
    IN IF sec.matched THEN match_existing_components(process_component(sec.lines))
       ELSE <<>>

\* One overlay operation on the list l: = replaces the list, + appends,
\* - removes the path if present.
overlay_step(l, op, path) ==
    CASE op = "=" -> <<path>>
      [] op = "+" -> Append(l, path)
      [] op = "-" -> SelectSeq(l, LAMBDA x : x # path)
      [] OTHER -> l

\* The list l after the commands cmds, applied in the order order.
RECURSIVE overlaid(_, _, _)
overlaid(l, cmds, order) ==
    IF order = <<>> THEN l
    ELSE overlaid(overlay_step(l, cmds[Head(order)].arg[1],
                               Tail(cmds[Head(order)].arg)),
                  cmds, Tail(order))

\* The orders of the commands cmds that are timestamp orders: every command
\* once, timestamps non-decreasing.
timestamp_orders(cmds) ==
    {p \in [1..Len(cmds) -> 1..Len(cmds)] :
        /\ \A i, j \in 1..Len(cmds) : p[i] = p[j] => i = j
        /\ \A i, j \in 1..Len(cmds) :
            i < j => cmds[p[i]].updated_at <= cmds[p[j]].updated_at}

\* C16: for an issue the component list is the list of the body with the
\* component commands applied as overlay operations in timestamp order:
\* = replaces the list, + appends, - removes the path if present.
C16_OverlayInTimestampOrder ==
    cur >= 1 /\ tpc = "diff" /\ ~isPR(obj) =>
        \E p \in timestamp_orders(commands_found["component"]) :
            obj.components =
                overlaid(body_components(obj), commands_found["component"], p)

\* A text block of the object o holds a !component directive whose operator
\* is none of = + -.
malformed_directive(o) ==
    \E i \in 1..Len(bodies(o)) :
        \E l \in Range(bodies(o)[i].body) :
            l.t = "component" /\ (l.s = <<>> \/ l.s[1] \notin {"=", "+", "-"})

\* C17: a !component directive with an unrecognised operator is fatal for
\* the pipeline run of its object: the run never completes.
C17_MalformedDirectiveIsFatal ==
    cur >= 1 /\ malformed_directive(obj) => invoked # bot_funcs

-----------------------------------------------------------------------------
\* Properties of the needs_info escalation.

\* The time of the last needs_info labeling of o.
labeling(o) ==
    MaxOf({e.created_at : e \in {x \in Range(o.events) :
                x.name = "LabeledEvent" /\ x.label = "needs_info"}})

\* o carries needs_info, was labeled, and its author has not commented
\* since the last labeling.
awaiting_info(o) ==
    /\ "needs_info" \in o.labels
    /\ \E e \in Range(o.events) : e.name = "LabeledEvent" /\ e.label = "needs_info"
    /\ ~\E e \in Range(o.events) :
            /\ e.name = "IssueComment"
            /\ e.author = o.author
            /\ e.created_at >= labeling(o)

\* The whole days elapsed since the last labeling of o.
days_waited(o) == (now - labeling(o)) \div TicksPerDay

\* The bot has posted a warning since the last labeling of o.
warned_since(o) ==
    \E e \in Range(boilerplates(o, "needs_info_warn")) : e.created_at >= labeling(o)

\* What the needs_info rule schedules for the current object.
scheduled_by_needs_info == needs_info(obj, NoActions, commands_found, FALSE).a

\* C18: for an object awaiting information, needs_info schedules the close
\* and the closing comment exactly when more than 28 whole days have passed
\* since the labeling, the warning and no close when more than 14 and at
\* most 28 have passed and no warning was posted since, and nothing when
\* 14 or fewer have passed.
C18_EscalationThresholds ==
    cur >= 1 /\ "needs_info" \in Range(invoked) /\ awaiting_info(obj) =>
        /\ days_waited(obj) > 28 =>
            /\ scheduled_by_needs_info.close
            /\ scheduled_by_needs_info.comments = <<Template("needs_info_close", <<>>)>>
        /\ days_waited(obj) <= 28 => ~scheduled_by_needs_info.close
        /\ days_waited(obj) > 14 /\ days_waited(obj) <= 28 /\ ~warned_since(obj) =>
            scheduled_by_needs_info.comments = <<Template("needs_info_warn", <<>>)>>
        /\ days_waited(obj) <= 14 => scheduled_by_needs_info.comments = <<>>

\* The pipeline ran on an object labeled 29 days ago whose author never
\* answered, and the close and the closing comment are scheduled.
C18_Witness ==
    /\ cur >= 1
    /\ tpc = "diff"
    /\ awaiting_info(obj)
    /\ days_waited(obj) = 29
    /\ pre_diff.close
    /\ Template("needs_info_close", <<>>) \in Range(pre_diff.comments)

-----------------------------------------------------------------------------
\* The warning of needs_info across successive runs.

\* o is in the warning window: it awaits information and was last labeled
\* more than 14 and at most 28 whole days ago.
in_warning_window(o) ==
    /\ awaiting_info(o)
    /\ days_waited(o) > NEEDS_INFO_WARN_DAYS
    /\ days_waited(o) <= NEEDS_INFO_CLOSE_DAYS

\* The number of warning comments among the comments cs.
warnings(cs) ==
    Cardinality({i \in 1..Len(cs) : cs[i] = Template("needs_info_warn", <<>>)})

\* The current object once the labels and comments of this run are on the
\* remote and it is fetched again.
next_fetched == refetched(remote[obj.number], actions)

\* C19: a run on an object in the warning window schedules at most one
\* warning, and none when a warning of the bot created since the last
\* labeling is in the history; once the comments of the run are posted
\* and the object is still in the window, the next run schedules none.
C19_WarnedOncePerLabeling ==
    just_diffed /\ in_warning_window(obj) =>
        /\ warnings(actions.comments) <= 1
        /\ warned_since(obj) => warnings(actions.comments) = 0
        /\ in_warning_window(next_fetched) /\ warnings(actions.comments) = 1 =>
            /\ warned_since(next_fetched)
            /\ warnings(second_run(next_fetched).a.comments) = 0

\* A run on an object labeled 15 days ago, with a warning of the bot from
\* before that labeling only, has scheduled the warning, and the object
\* fetched after it is posted is still in the window.
C19_Witness ==
    /\ just_diffed
    /\ in_warning_window(obj)
    /\ boilerplates(obj, "needs_info_warn") # <<>>
    /\ ~warned_since(obj)
    /\ warnings(actions.comments) = 1
    /\ in_warning_window(next_fetched)

-----------------------------------------------------------------------------
\* The components comment across successive runs.

\* The number of components comments among the comments cs.
banners(cs) ==
    Cardinality({i \in 1..Len(cs) :
        cs[i] # <<>> /\ cs[i][1] = Line("marker", <<"components_banner">>)})

\* What match_components schedules for the object o.
scheduled_by_match_components(o) ==
    match_components(o, NoActions, parse_commands(o), FALSE).a

\* C20: for an Issue whose run scheduled a components comment, once that
\* comment is posted and the object is fetched again, match_components
\* schedules no components comment.
C20_ComponentsCommentOnce ==
    just_diffed /\ ~isPR(obj) /\ banners(actions.comments) = 1 =>
        banners(scheduled_by_match_components(next_fetched).comments) = 0

-----------------------------------------------------------------------------
\* Properties of the component extraction.

\* The candidates process_component extracts from the Component Name
\* section of o.
extracted(o) ==
    LET sec == Section(o.body, "Component Name")
    IN IF sec.matched THEN process_component(sec.lines) ELSE <<>>

\* The Component Name section of o is the one line cloud/aws/ec2.py.
names_ec2(o) ==
    LET sec == Section(o.body, "Component Name")
    IN /\ sec.matched
       /\ SelectSeq(sec.lines, LAMBDA l : l.s # <<>>)
            = <<Line("text", <<"cloud", "/", "aws", "/", "ec", "2", ".py">>)>>

\* C21: for an Issue whose Component Name section is the line
\* cloud/aws/ec2.py and that has no commands, the extraction of
\* match_components yields the one candidate cloud/aws/ec2.
C21_SuffixStrippedDigitsKept ==
    /\ cur >= 1
    /\ invoked # <<>>
    /\ ~isPR(obj)
    /\ names_ec2(obj)
    /\ \A k \in Keywords : ~Has(commands_found, k)
    => extracted(obj) = <<<<"cloud", "/", "aws", "/", "ec", "2">>>>

-----------------------------------------------------------------------------
\* Properties of single rules within the pipeline.

\* The position of f in bot_funcs.
position(f) == CHOOSE i \in 1..Len(bot_funcs) : bot_funcs[i] = f

\* The pipeline states of a run of funcs from st, one after each call,
\* st first; the run stops at the first call that raises.
RECURSIVE run_trace(_, _, _)
run_trace(funcs, st, cf) ==
    IF funcs = <<>> \/ st.err # "none" THEN <<st>>
    ELSE <<st>> \o run_trace(Tail(funcs),
                     called(st, Head(funcs),
                            call(Head(funcs), st.obj, st.a, cf, FALSE)),
                     cf)

\* The states the pipeline goes through on the current object.
\* match_components overwrites the components, so they are the same
\* whether or not the pipeline has already run on the object.
pipeline_trace ==
    run_trace(bot_funcs,
              [obj |-> obj, a |-> NoActions, err |-> "none", invoked |-> <<>>],
              commands_found)

\* In the trace t: the state in which f is called, and the state it
\* leaves.
before(t, f) == t[position(f)]

outcome(t, f) == t[position(f) + 1]

\* The pipeline of the current object has called every function.
pipeline_done == cur >= 1 /\ invoked = bot_funcs

\* The rules the claim takes to apply to pull requests only.
pr_rules ==
    {"ci_comments", "needs_revision", "needs_ci", "stale_ci", "docs_only",
     "backport", "is_module", "needs_rebase", "stale_review",
     "pr_from_upstream", "bad_pr"}

\* f, called on the current object with the accumulator the pipeline has
\* built, returns without an error and hands the accumulator back as it
\* is.
left_alone(f) == call(f, obj, pre_diff, commands_found, FALSE) = Ok(obj, pre_diff)

\* The pipeline has just run on the current object and has called f.
has_called(f) == cur >= 1 /\ tpc \in {"diff", "raised"} /\ f \in Range(invoked)

\* C22 as stated: on an Issue each of the CI-derived and structural PR
\* rules, is_module among them, raises nothing and leaves the accumulator
\* unchanged, and on a PR needs_template leaves it unchanged.
C22_WrongVariantIsNoOp ==
    /\ \A f \in pr_rules : has_called(f) /\ ~isPR(obj) => left_alone(f)
    /\ has_called("needs_template") /\ isPR(obj) => left_alone("needs_template")

\* What is_module schedules: the label module when a component lies in
\* the modules directory, its removal otherwise.
module_scheduled(o, a) ==
    IF \E c \in Range(o.components) : starts_with_modules(c)
    THEN to_label_append(a, "module")
    ELSE to_unlabel_append(a, "module")

\* C22, amended: on an Issue each of these rules other than is_module
\* raises nothing and leaves the accumulator unchanged, and on a PR
\* needs_template leaves it unchanged; is_module is not a rule for pull
\* requests only: on an Issue, too, it raises nothing and schedules the
\* label module or its removal from the components of the object.
C22_WrongVariantIsNoOpButIsModule ==
    /\ \A f \in pr_rules \ {"is_module"} :
            has_called(f) /\ ~isPR(obj) => left_alone(f)
    /\ has_called("needs_template") /\ isPR(obj) => left_alone("needs_template")
    /\ has_called("is_module") /\ ~isPR(obj) =>
            call("is_module", obj, pre_diff, commands_found, FALSE)
                = Ok(obj, module_scheduled(obj, pre_diff))

\* The pipeline has run on an Issue one of whose components lies in the
\* modules directory: the label module is scheduled, and the rules for
\* pull requests have been called.
C22_Witness ==
    /\ pipeline_done
    /\ ~isPR(obj)
    /\ "module" \in Range(pre_diff.to_label)
    /\ tpc = "diff"

-----------------------------------------------------------------------------
\* Properties of fetch_object_by_number.

\* The number main() was given.
requested == futures[1].number

\* The fetch as an Issue ended with the exception e; the fetch as a PR was
\* made after it.
issue_fetch_raised(e) == Len(futures) >= 1 /\ futures[1].state = e

retried_as_pr == Len(futures) = 2

\* C23: the number is fetched as a PR only when the fetch as an Issue
\* found no Issue under it; a failure of the remote during the fetch as an
\* Issue leaves main() as that failure and is followed by no second
\* fetch; and the not-found error leaves main() only when the remote holds
\* neither an Issue nor a PR under the number.
C23_RetryOnlyWhenNotFound ==
    dpc \in {"main", "crashed"} /\ futures # <<>> =>
        /\ retried_as_pr => issue_fetch_raised("ValueError")
        /\ issue_fetch_raised("JSONDecodeError") \/ issue_fetch_raised("URLError") =>
              /\ ~retried_as_pr
              /\ dpc = "crashed"
              /\ err = futures[1].state
        /\ dpc = "crashed" /\ err = "ValueError" => requested \notin DOMAIN remote

-----------------------------------------------------------------------------
\* The answered needs_info.

\* o was labeled needs_info and its author has commented at or after the
\* last labeling.
answered(o) ==
    /\ \E e \in Range(o.events) : e.name = "LabeledEvent" /\ e.label = "needs_info"
    /\ \E e \in Range(o.events) :
            /\ e.name = "IssueComment"
            /\ e.author = o.author
            /\ e.created_at >= labeling(o)

\* C24: when needs_info is on the object or commanded and the author has
\* commented at or after the last labeling, the needs_info rule raises
\* nothing and schedules the removal of needs_info and nothing else: no
\* needs_info in to_label, no close, no comment.
C24_AnsweredIsUnlabeled ==
    /\ has_called("needs_info")
    /\ "needs_info" \in obj.labels \/ Has(commands_found, "needs_info")
    /\ answered(obj)
    => needs_info(obj, NoActions, commands_found, FALSE)
          = Ok(obj, to_unlabel_append(NoActions, "needs_info"))

\* The pipeline has run on an object labeled needs_info that carries a
\* needs_info command and a comment of its author made at the very time of
\* the labeling: the removal of needs_info is scheduled.
C24_Witness ==
    /\ has_called("needs_info")
    /\ tpc = "diff"
    /\ "needs_info" \in obj.labels
    /\ Has(commands_found, "needs_info")
    /\ answered(obj)
    /\ last_commented_by(obj, obj.author) = labeling(obj)
    /\ "needs_info" \in Range(pre_diff.to_unlabel)

-----------------------------------------------------------------------------
\* The close mutation.

\* C25: every close the applier issues is the mutation of the object's
\* variant: close_pr for a PR, close_issue for an Issue.
C25_CloseMatchesVariant ==
    \A i \in 1..Len(log) :
        log[i].op \in {"close_issue", "close_pr"} =>
            log[i].op = IF remote[log[i].number].kind = "PR"
                        THEN "close_pr" ELSE "close_issue"

-----------------------------------------------------------------------------
\* The needs_triage label across successive runs.

\* The history of o holds a labeling with needs_triage or triage.
ever_triaged(o) ==
    \E e \in Range(o.events) :
        e.name = "LabeledEvent" /\ e.label \in {"needs_triage", "triage"}

\* The object o fetched after a committer took the label off it.
taken_off(o, label) ==
    [o EXCEPT !.labels = @ \ {label},
              !.events = Append(@, UnlabeledEvent(now, label, "committer"))]

\* C26: the pipeline schedules the label needs_triage exactly when the
\* history of the object holds no labeling with needs_triage or triage;
\* and once a run has had it added, needs_triage does not schedule it on
\* the object fetched afterwards, whether the label is still on the
\* object or was taken off.
C26_TriagedOnce ==
    /\ has_called("needs_triage") /\ tpc = "diff" =>
          ("needs_triage" \in Range(pre_diff.to_label) <=> ~ever_triaged(obj))
    /\ just_diffed /\ "needs_triage" \in Range(actions.to_label) =>
          \A o \in {next_fetched, taken_off(next_fetched, "needs_triage")} :
              /\ ever_triaged(o)
              /\ needs_triage(o, NoActions, commands_found, FALSE) = Ok(o, NoActions)

\* The pipeline has run on an object that was labeled needs_triage and
\* has lost the label since, and has not scheduled the label.
C26_Witness ==
    /\ has_called("needs_triage")
    /\ tpc = "diff"
    /\ ever_triaged(obj)
    /\ obj.labels \cap {"needs_triage", "triage"} = {}
    /\ "needs_triage" \notin Range(pre_diff.to_label)

-----------------------------------------------------------------------------
\* The resolved_by_pr commands.

\* arg is a non-empty string of decimal digits.
is_number(arg) == arg # <<>> /\ \A i \in 1..Len(arg) : arg[i] \in Digits

\* Every pull request the commands cmds refer to is reported merged.
all_reported_merged(cmds) ==
    \A i \in 1..Len(cmds) : PullRequestState(cmds[i].arg) = "merged"

\* C27: the argument of every command stored under resolved_by_pr is a
\* non-empty string of decimal digits, the rule never fails to convert
\* it, and the rule sets close exactly when there is such a command and
\* every pull request referred to is reported merged.
C27_ResolvedByNumber ==
    cur >= 1 /\ tpc \in {"diff", "raised"} =>
        /\ \A i \in 1..Len(commands_found["resolved_by_pr"]) :
              is_number(commands_found["resolved_by_pr"][i].arg)
        /\ ~(invoked # <<>> /\ Last(invoked) = "resolved_by_pr" /\ err = "ValueError")
        /\ invoked = bot_funcs /\ ~isPR(obj) =>
              LET t == pipeline_trace
              IN ~before(t, "resolved_by_pr").a.close =>
                    (outcome(t, "resolved_by_pr").a.close <=>
                        /\ Has(commands_found, "resolved_by_pr")
                        /\ all_reported_merged(commands_found["resolved_by_pr"]))

-----------------------------------------------------------------------------
\* What the rules leave alone.

\* The states the pipeline goes through on the current object as it was
\* fetched, its components still empty.
fetched_trace ==
    run_trace(bot_funcs,
              [obj |-> [obj EXCEPT !.components = <<>>], a |-> NoActions,
               err |-> "none", invoked |-> <<>>],
              commands_found)

\* The object o with the components of the object p.
with_components_of(o, p) == [o EXCEPT !.components = p.components]

\* C28: after the pipeline ran on an object (to its end, or to the rule
\* that raised), the Command Index is the
\* one parsed from the object; every rule other than match_components
\* hands the object on as it got it, and match_components changes the
\* components and nothing else; the files of a PR are those fetched.
C28_RulesLeaveObjectAndIndex ==
    cur >= 1 /\ (tpc = "diff" \/ (tpc = "raised" /\ err # "URLError")) /\ invoked # <<>> =>
        LET t == fetched_trace
        IN /\ commands_found = parse_commands(obj)
           /\ \A k \in 1..(Len(t) - 1) :
                 IF bot_funcs[k] = "match_components"
                 THEN with_components_of(t[k + 1].obj, t[k].obj) = t[k].obj
                 ELSE t[k + 1].obj = t[k].obj
           /\ isPR(obj) => obj.files = remote[obj.number].files

\* The pipeline has run on a PR: its components are its files, and the
\* files are those fetched.
C28_Witness ==
    /\ cur >= 1
    /\ tpc = "diff"
    /\ invoked = bot_funcs
    /\ isPR(obj)
    /\ obj.components = obj.files
    /\ obj.files # <<>>

-----------------------------------------------------------------------------
\* The collection redirect.

\* The redirect comments among the comments cs.
redirects(cs) ==
    {c \in Range(cs) : c # <<>> /\ c[1] = Line("marker", <<"collection_redirect">>)}

\* C29: when match_components schedules the close of an Issue, no
\* !needs_collection_redirect command is present, the label bot_closed
\* and one redirect comment are scheduled with it, and the comment lists
\* at least one collection; so no close is scheduled when the tie-break
\* leaves no match.
C29_RedirectNamesACollection ==
    cur >= 1 /\ tpc \in {"diff", "raised"} /\ invoked # <<>> /\ ~isPR(obj) =>
        \A a \in {scheduled_by_match_components(obj)} :
            a.close =>
                /\ ~Has(commands_found, "!needs_collection_redirect")
                /\ "bot_closed" \in Range(a.to_label)
                /\ Cardinality(redirects(a.comments)) = 1
                /\ \A c \in redirects(a.comments) : Len(c) >= 2

-----------------------------------------------------------------------------
\* The needs_info command on an object never labeled.

\* The history of o holds no labeling with needs_info.
never_labeled_needs_info(o) ==
    ~\E e \in Range(o.events) : e.name = "LabeledEvent" /\ e.label = "needs_info"

\* C30: when a needs_info command is present and the object was never
\* labeled needs_info, the needs_info rule raises nothing and leaves
\* needs_info in to_label.
C30_CommandOnUnlabeledObject ==
    /\ has_called("needs_info")
    /\ Has(commands_found, "needs_info")
    /\ never_labeled_needs_info(obj)
    => LET t == pipeline_trace
       IN /\ outcome(t, "needs_info").err = "none"
          /\ "needs_info" \in Range(outcome(t, "needs_info").a.to_label)


(***************************************************************************)
(* C31: the cancel-CI flag and the CI snapshot                             *)
(***************************************************************************)

\* C31: whenever the cancel-CI flag is set at the end of the pipeline,
\* the object is a PR with a CI snapshot, so that applying cancel-CI has a
\* build id to cancel and raises nothing.
C31_CancelHasBuildId ==
    /\ has_called("bad_pr") /\ pre_diff.cancel_ci =>
          isPR(obj) /\ obj.ci.present
    /\ err # "AttributeError"


(***************************************************************************)
(* C32: remove_labels resolves its label ids from obj.labels               *)
(***************************************************************************)

\* The removals triage has issued for the object at hand.
removals == SelectSeq(log, LAMBDA m : m.op = "remove_labels" /\ m.number = obj.number)

\* C32: every call of remove_labels made by triage names only labels that
\* are in the label map of the object, for the removals of the pipeline
\* and for the removal of bot_broken, so that looking the ids up in
\* obj.labels raises no KeyError.
C32_RemovedLabelsAreOnObject ==
    cur >= 1 =>
        /\ \A i \in 1..Len(removals) : Range(removals[i].labels) \subseteq obj.labels
        /\ err # "KeyError"


(***************************************************************************)
(* C33: the bot's own mutations and re-selection                           *)
(***************************************************************************)

\* The remote object r once the label changes and comments of the
\* accumulator a are on it; each of them that takes effect moves
\* updated_at, which is what discovery compares with the cache.
applied(r, a) ==
    remote_add_comments(
        remote_remove_labels(remote_add_labels(r, a.to_label, now),
                             a.to_unlabel, now),
        a.comments, now)

\* The diffed accumulator a changes the remote object.
changes_remote(a) ==
    a.to_label # <<>> \/ a.to_unlabel # <<>> \/ a.comments # <<>>

\* The run of the next cycle on the remote object r, which discovery
\* selects when the mutations of the cycle before moved its updated_at.
cycle_run(r) == second_run(fetch_object(r, now, now))

\* The diffed results of the two cycles that follow the run at hand, when
\* nothing but the bot's own mutations changes the object.
following_cycles ==
    LET r1 == applied(remote[obj.number], actions)
        c2 == cycle_run(r1)
        r2 == applied(r1, c2.a)
        c3 == cycle_run(r2)
    IN <<c2, c3>>

====
